---- MODULE Spec2Model ----
(***************************************************************************)
(* A model of the attendance-tracker backend.                              *)
(*                                                                         *)
(*   Spec      the in-process SSE broker (app/db.py: SseBroker, SseClient),*)
(*             the SSE endpoint (app/routes/attendance.py: AttendanceSSE)  *)
(*             and the three model functions that publish to it            *)
(*             (app/models.py), with POST /attendance in front of          *)
(*             mark_attendance.                                            *)
(*   SpecAuth  the JWT auth module (app/auth.py): signup, login and the    *)
(*             jwt_required / roles_required decorators.                   *)
(*                                                                         *)
(* Threads of Spec are the HTTP requests: a "req" thread runs one of the   *)
(* publishing functions, a "cli" thread runs one GET /attendance/stream.   *)
(* Requests and clients are numbered in the order they arrive. A lock is a *)
(* variable naming its holder and is held across steps, so mutual          *)
(* exclusion is a property of the model and not an assumption; statements  *)
(* that touch only a thread's locals are joined to the step before them.   *)
(***************************************************************************)
EXTENDS Integers, Sequences, FiniteSets, Bags, TLC

\* ------------------------------------------------------------------ bounds
MaxClients == 2
MaxRequests == 2

Clients == 1..MaxClients
Requests == 1..MaxRequests

\* ------------------------------------------------------------ thread names
NoThread == <<"none", 0>>
Req(r) == <<"req", r>>
Cli(c) == <<"cli", c>>

VARIABLES
    \* SseBroker
    clients,      \* self._clients: sequence of <<cid, client>>
    lock,         \* self._lock: the thread holding it, or NoThread
    next_id,      \* self._next_id
    \* SseClient (one per GET /attendance/stream request)
    queue,        \* self._queue
    cond,         \* self._cond: the thread holding the condition's lock
    \* GET /attendance/stream request c
    cpc,          \* where request c is
    client_id,    \* the id register returned (cid inside register)
    items,        \* stream(): items still to yield
    newlist,      \* unregister(): the filtered list before it is assigned
    \* publishing request r
    rpc,          \* where request r is
    rop,          \* the function it runs and its input
    rows,         \* the rows execute_query returned to it
    pubEvent,     \* publish(event, data): event
    pubData,      \* publish(event, data): data
    snap,         \* publish(): the rest of list(self._clients)
    result,       \* what the request returned
    \* database
    classes, class_members, attendance, nextRowId,
    \* history (not program state)
    sent,         \* per client, every payload send() appended, in order
    sentPid,      \* per client, the request whose publish appended it
    yielded,      \* per client, every event payload stream() yielded
    pubBase,      \* per request, sent when its publish acquired the lock
    pubRegd,      \* per request, the clients listed at that moment
    regStarted,   \* per client, the publishes already called when it called register
    regAcquired,  \* per client, the publishes that had had the lock when register returned
    \* app/auth.py
    users,        \* _USERS: the stored users, one record per email
    env,          \* the environment: JWT_SECRET and TOKEN_EXP_MIN
    now,          \* the clock, in minutes
    resp,         \* the last request to app/auth.py and its response
    \* app/services/firebase_client.py
    fbEnv,        \* FIREBASE_SERVICE_ACCOUNT_JSON, GOOGLE_APPLICATION_CREDENTIALS and the file
    fbApps,       \* firebase_admin._apps
    fbLoads,      \* history: how often the credentials were read from the environment
    fbResp,       \* the last call into the Firebase code and its outcome
    \* app/__init__.py
    app,          \* create_app(): where it is, the URL rules, blueprints and log of its app
    appResp,      \* the last request to the returned app and its answer
    \* app/routes/classes.py
    orm,          \* the tables the handlers use: classes, enrollments, sessions
    clsResp,      \* the last request to app/routes/classes.py and its response
    \* SingletonConnectionPool and get_db_connection
    instance,     \* SingletonConnectionPool._instance
    instance_lock,\* SingletonConnectionPool._instance_lock: the thread holding it
    tpc,          \* per thread, where its call is
    tconn,        \* per thread, its locals: pool_instance and conn
    pools,        \* every pool object constructed, with its connections; the failed constructions
    \* SseClient.stream(): time
    clock,        \* time.time(), in seconds
    last_ping,    \* per client, stream()'s last_ping
    pings,        \* history: per client, when stream() was started and yielded keep-alives
    \* SseBroker.register / unregister called directly
    apiResp,      \* the last call, the list it found and what it returned
    \* app/models.py: upsert_user
    utab,         \* the users table: its rows and the next id of its sequence
    upc,          \* per caller, where its upsert_user call is
    uloc,         \* per caller, the arguments and the dict returned
    uhist         \* history: per email, the upserts executed, in order, and the row's id

brokerVars == <<clients, lock, next_id>>
clientVars == <<queue, cond>>
sseVars == <<cpc, client_id, items, newlist>>
reqVars == <<rpc, rop, rows, pubEvent, pubData, snap, result>>
dbVars == <<classes, class_members, attendance, nextRowId>>
histVars == <<sent, sentPid, yielded, pubBase, pubRegd, regStarted, regAcquired>>
authVars == <<users, env, now, resp>>
fbVars == <<fbEnv, fbApps, fbLoads, fbResp>>
appVars == <<app, appResp>>
clsVars == <<orm, clsResp>>
poolVars == <<instance, instance_lock, tpc, tconn, pools>>
timeVars == <<clock, last_ping, pings>>
apiVars == <<apiResp>>
upsertVars == <<utab, upc, uloc, uhist>>
restVars == <<clsVars, poolVars, timeVars, apiVars, upsertVars>>
notFbVars == <<appVars, restVars>>
notAppVars == <<fbVars, restVars>>
extVars == <<fbVars, appVars, restVars>>
untimedVars == <<fbVars, appVars, clsVars, poolVars, apiVars, upsertVars>>
coreVars == <<brokerVars, clientVars, sseVars, reqVars, dbVars, histVars, authVars>>
vars == <<coreVars, extVars>>

\* ----------------------------------------------------------------- values
NoData == [none |-> TRUE]
NoOp == [fn |-> "none"]

\* f"event: {event}\ndata: {data}\n\n"
Payload(event, data) == <<"event: ", event, "\ndata: ", data, "\n\n">>

EventNames == {"class_created", "class_member_added", "attendance_marked"}

EmptyQueues == [c \in Clients |-> <<>>]

\* ------------------------------------------------------------ app/auth.py
\* Strings that the code trims and lower-cases are sequences of characters.
MaxTime == 1

\* no request to app/auth.py was made yet
NoResp == [handler |-> "none"]

\* _USERS = {} and a configured environment; the clock starts at 0
NoUsers == [email \in {} |-> NoResp]
AuthAtStart ==
    /\ users = NoUsers
    /\ env = [secret |-> "k1", exp |-> "unset"]
    /\ now = 0
    /\ resp = NoResp

\* ------------------------------------------- app/services/firebase_client.py
\* no credentials in the environment, no Firebase app, no call made yet
NoCredentials == [json |-> "unset", path |-> "unset"]
NoCall == [fn |-> "none"]
FbAtStart ==
    /\ fbEnv = NoCredentials
    /\ fbApps = {}
    /\ fbLoads = [reads |-> 0, inits |-> 0]
    /\ fbResp = NoCall

\* ------------------------------------------------------------ app/__init__.py
\* create_app() was not called yet
NoApp == [pc |-> "none", rules |-> <<>>, blueprints |-> {}, api |-> FALSE, log |-> {}, i |-> 1]
AppAtStart ==
    /\ app = NoApp
    /\ appResp = NoCall

\* ------------------------------------------------------ app/routes/classes.py
\* empty tables, no request made yet
\* classes and sessions in the order of their ids, enrollments as a bag of rows
NoRows == [classes |-> <<>>, enrollments |-> EmptyBag, sessions |-> <<>>]
ClsAtStart ==
    /\ orm = NoRows
    /\ clsResp = NoResp

\* ------------------------------------------------- SingletonConnectionPool
MaxThreads == 2
PoolThreads == 1..MaxThreads
\* the locals of a call: the function run, what instance() found and returned,
\* the connection, what was raised; history: whether the constructor was called,
\* _instance and the lock as instance() left them, the putconn calls made
NoLocals ==
    [fn |-> "none", found |-> 0, ctor |-> "not_called", pool_instance |-> 0, conn |-> 0,
     raised |-> "no", left |-> [instance |-> 0, lock |-> 0], puts |-> 0]
\* _instance = None (0), the lock free, no call running, no pool constructed
PoolAtStart ==
    /\ instance = 0
    /\ instance_lock = 0
    /\ tpc = [t \in PoolThreads |-> "idle"]
    /\ tconn = [t \in PoolThreads |-> NoLocals]
    /\ pools = [objects |-> <<>>, failed |-> 0]

\* ------------------------------------------------------ SseClient.stream()
\* the clock at 0, no stream started
\* of one stream: when it started and when it yielded keep-alives; the queue
\* length found on entering the with block, whether it waited, and until when;
\* the last iteration: when `now` was read, the keep-alive (or start) before it,
\* whether a keep-alive was yielded, the payloads yielded before and drained
NoIteration == [at |-> 0, prev |-> 0, ping |-> FALSE, before |-> 0, drained |-> -1]
NoPings ==
    [start |-> <<>>, keepalives |-> <<>>, pending |-> 0, waited |-> FALSE, until |-> 0,
     last |-> NoIteration]
TimeAtStart ==
    /\ clock = 0
    /\ last_ping = [c \in Clients |-> 0]
    /\ pings = [c \in Clients |-> NoPings]

\* ------------------------------------- SseBroker.register / unregister
\* no call made yet
ApiAtStart == apiResp = NoCall

\* ----------------------------------------------- app/models.py: upsert_user
MaxCallers == 2
Callers == 1..MaxCallers
UserEmails == {"a", "b"}
NoArgs == [email |-> "", name |-> "", role |-> "", raised |-> FALSE, returned |-> <<>>,
           calls |-> 0]
\* an empty users table, no call running
UpsertAtStart ==
    /\ utab = [rows |-> <<>>, nextId |-> 1]
    /\ upc = [u \in Callers |-> "idle"]
    /\ uloc = [u \in Callers |-> NoArgs]
    /\ uhist = [e \in UserEmails |-> <<>>]

\* the parts of the program a specification leaves alone, as they start
RestAtStart == ClsAtStart /\ PoolAtStart /\ TimeAtStart /\ ApiAtStart /\ UpsertAtStart
ExtAtStart == FbAtStart /\ AppAtStart /\ RestAtStart

\* the broker, its clients, the requests and the database at start
InitBroker ==
    /\ clients = <<>>
    /\ lock = NoThread
    /\ next_id = 1
    /\ queue = EmptyQueues
    /\ cond = [c \in Clients |-> NoThread]
    /\ cpc = [c \in Clients |-> "new"]
    /\ client_id = [c \in Clients |-> 0]
    /\ items = EmptyQueues
    /\ newlist = EmptyQueues
    /\ rpc = [r \in Requests |-> "idle"]
    /\ rop = [r \in Requests |-> NoOp]
    /\ rows = [r \in Requests |-> <<>>]
    /\ pubEvent = [r \in Requests |-> "none"]
    /\ pubData = [r \in Requests |-> NoData]
    /\ snap = [r \in Requests |-> <<>>]
    /\ result = [r \in Requests |-> [status |-> 0, body |-> NoData]]
    /\ classes = {}
    /\ class_members = {}
    /\ attendance = {}
    /\ nextRowId = [classes |-> 1, attendance |-> 1]
    /\ sent = EmptyQueues
    /\ sentPid = EmptyQueues
    /\ yielded = EmptyQueues
    /\ pubBase = [r \in Requests |-> EmptyQueues]
    /\ pubRegd = [r \in Requests |-> {}]
    /\ regStarted = [c \in Clients |-> {}]
    /\ regAcquired = [c \in Clients |-> {}]

Init == InitBroker /\ AuthAtStart /\ ExtAtStart

\* ================================================================ SseBroker

\* mutant: the with block does not wait for the lock
LockFreeAlways == TRUE

\* `with self._lock:` is entered only when no thread holds the lock.
LockFree == lock = NoThread

\* `with self._cond:` of client c
CondFree(c) == cond[c] = NoThread

\* mutant: the entries up to the given id are dropped
FilterOutUpTo(list, id) ==
    LET After(e) == e[1] > id IN SelectSeq(list, After)

\* [(cid, c) for cid, c in self._clients if cid != client_id]
RECURSIVE FilterOut(_, _)
FilterOut(list, id) ==
    IF list = <<>> THEN <<>>
    ELSE IF Head(list)[1] # id
         THEN <<Head(list)>> \o FilterOut(Tail(list), id)
         ELSE FilterOut(Tail(list), id)

\* the client objects of a client list
Listed(list) == {list[i][2] : i \in 1..Len(list)}

\* the publishes that have been called / that have held the broker lock
PublishStarted ==
    {r \in Requests : rpc[r] \in {"pub_call", "pub_iter", "pub_send"}
                       \/ (rpc[r] = "done" /\ pubEvent[r] # "none")}
PublishAcquired ==
    {r \in Requests : rpc[r] \in {"pub_iter", "pub_send"}
                       \/ (rpc[r] = "done" /\ pubEvent[r] # "none")}

\* mutant: a new client starts with the events sent to the client before it
NewQueueReplay(c) == IF c > 1 THEN sent[c - 1] ELSE <<>>

\* SseClient.__init__: self._queue = []
NewQueue(c) == <<>>

\* ------------------------------------------- GET /attendance/stream, part 1
\* sc = SseClient(); client_id = sse_broker.register(sc); register: with self._lock
SseGet(c) ==
    /\ cpc[c] = "new"
    /\ IF c = 1 THEN TRUE ELSE cpc[c - 1] # "new"
    /\ queue' = [queue EXCEPT ![c] = NewQueue(c)]
    /\ cond' = [cond EXCEPT ![c] = NoThread]
    /\ LockFree
    /\ lock' = Cli(c)
    /\ cpc' = [cpc EXCEPT ![c] = "reg_locked"]
    /\ regStarted' = [regStarted EXCEPT ![c] = PublishStarted]
    /\ UNCHANGED <<authVars, extVars, clients, next_id, client_id, items, newlist, reqVars, dbVars,
                   sent, sentPid, yielded, pubBase, pubRegd, regAcquired>>

\* register: cid = self._next_id; self._next_id += 1;
\* self._clients.append((cid, client)); return cid  (the lock is released)
\* get() then returns Response(generator()): the generator has not started.
Register(c) ==
    /\ cpc[c] = "reg_locked"
    /\ client_id' = [client_id EXCEPT ![c] = next_id]
    /\ next_id' = next_id + 1
    /\ clients' = Append(clients, <<next_id, c>>)
    /\ lock' = NoThread
    /\ cpc' = [cpc EXCEPT ![c] = "gen_new"]
    /\ regAcquired' = [regAcquired EXCEPT ![c] = PublishAcquired]
    /\ UNCHANGED <<authVars, extVars, clientVars, items, newlist, reqVars, dbVars,
                   sent, sentPid, yielded, pubBase, pubRegd, regStarted>>

\* unregister: with self._lock
UnregisterAcquire(c) ==
    /\ cpc[c] = "unreg_call"
    /\ LockFree
    /\ lock' = Cli(c)
    /\ cpc' = [cpc EXCEPT ![c] = "unreg_locked"]
    /\ UNCHANGED <<authVars, extVars, clients, next_id, clientVars, client_id, items, newlist,
                   reqVars, dbVars, histVars>>

\* unregister: the list comprehension is evaluated
UnregisterFilter(c) ==
    /\ cpc[c] = "unreg_locked"
    /\ newlist' = [newlist EXCEPT ![c] = FilterOut(clients, client_id[c])]
    /\ cpc' = [cpc EXCEPT ![c] = "unreg_write"]
    /\ UNCHANGED <<authVars, extVars, brokerVars, clientVars, client_id, items, reqVars, dbVars, histVars>>

\* unregister: self._clients = <the new list>  (the lock is released)
UnregisterWrite(c) ==
    /\ cpc[c] = "unreg_write"
    /\ clients' = newlist[c]
    /\ lock' = NoThread
    /\ newlist' = [newlist EXCEPT ![c] = <<>>]
    /\ cpc' = [cpc EXCEPT ![c] = "closed"]
    /\ UNCHANGED <<authVars, extVars, next_id, clientVars, client_id, items, reqVars, dbVars, histVars>>

\* ================================================================ SseClient

\* mutant: self._queue.insert(0, payload)
EnqueueFront(q, payload) == <<payload>> \o q

\* send: self._queue.append(payload)
Enqueue(q, payload) == Append(q, payload)

\* mutant: the last payload queued is left out
DrainedButLast(q) == IF q = <<>> THEN <<>> ELSE SubSeq(q, 1, Len(q) - 1)

\* stream: items = list(self._queue)
Drained(q) == q

\* ------------------------------------------- GET /attendance/stream, part 2
\* The WSGI server asks the generator for its first chunk: stream() starts
\* (keepalive_interval = 15; last_ping = time.time()).
StreamStarts(c) ==
    /\ cpc[c] = "gen_new"
    /\ cpc' = [cpc EXCEPT ![c] = "s_top"]
    /\ UNCHANGED <<authVars, untimedVars, brokerVars, clientVars, client_id, items, newlist, reqVars, dbVars, histVars>>

StreamStart(c) == StreamStarts(c) /\ UNCHANGED timeVars

\* The response is closed before the generator ever ran: closing a generator
\* that has not started runs none of its body, so generator()'s finally
\* (the unregister) does not run.
CloseUnstarted(c) ==
    /\ cpc[c] = "gen_new"
    /\ cpc' = [cpc EXCEPT ![c] = "leaked"]
    /\ UNCHANGED <<authVars, extVars, brokerVars, clientVars, client_id, items, newlist, reqVars, dbVars, histVars>>

\* stream: while True: with self._cond: if not self._queue: self._cond.wait(timeout=...)
\* (wait releases the lock; with a payload queued the lock stays held)
StreamEnters(c) ==
    /\ cpc[c] = "s_top"
    /\ CondFree(c)
    /\ IF queue[c] = <<>>
       THEN /\ cond' = cond
            /\ cpc' = [cpc EXCEPT ![c] = "s_wait"]
       ELSE /\ cond' = [cond EXCEPT ![c] = Cli(c)]
            /\ cpc' = [cpc EXCEPT ![c] = "s_drain"]
    /\ UNCHANGED <<authVars, untimedVars, brokerVars, queue, client_id, items, newlist, reqVars, dbVars, histVars>>

StreamEnter(c) == StreamEnters(c) /\ UNCHANGED timeVars

\* stream: wait returns, on notify or on its timeout, having taken the lock again
StreamWakes(c) ==
    /\ cpc[c] = "s_wait"
    /\ CondFree(c)
    /\ cond' = [cond EXCEPT ![c] = Cli(c)]
    /\ cpc' = [cpc EXCEPT ![c] = "s_drain"]
    /\ UNCHANGED <<authVars, untimedVars, brokerVars, queue, client_id, items, newlist, reqVars, dbVars, histVars>>

StreamWake(c) == StreamWakes(c) /\ UNCHANGED timeVars

\* where the generator goes on from, with `rest` still to yield
AfterChunk(rest) == IF rest = <<>> THEN "s_top" ELSE "s_items"

\* stream: items = list(self._queue); self._queue.clear()  (the with block ends)
\*         now = time.time()
\*         if now - last_ping >= keepalive_interval: yield ": keep-alive\n\n"; last_ping = now
\* `due` says whether the keep-alive is yielded. At the yield the generator is
\* suspended.
StreamDrains(c, due) ==
    /\ cpc[c] = "s_drain"
    /\ items' = [items EXCEPT ![c] = Drained(queue[c])]
    /\ queue' = [queue EXCEPT ![c] = <<>>]
    /\ cond' = [cond EXCEPT ![c] = NoThread]
    /\ cpc' = [cpc EXCEPT ![c] = IF due THEN "s_susp" ELSE AfterChunk(items'[c])]
    /\ UNCHANGED <<authVars, untimedVars, brokerVars, client_id, newlist, reqVars, dbVars, histVars>>

\* Without the clock either branch may be taken.
StreamDrain(c) ==
    /\ \E due \in BOOLEAN : StreamDrains(c, due)
    /\ UNCHANGED timeVars

\* stream: for payload in items: yield payload   (suspended at the yield)
StreamYield(c) ==
    /\ cpc[c] = "s_items"
    /\ items[c] # <<>>
    /\ yielded' = [yielded EXCEPT ![c] = Append(@, Head(items[c]))]
    /\ items' = [items EXCEPT ![c] = Tail(@)]
    /\ cpc' = [cpc EXCEPT ![c] = "s_susp"]
    /\ UNCHANGED <<authVars, extVars, brokerVars, clientVars, client_id, newlist, reqVars, dbVars,
                   sent, sentPid, pubBase, pubRegd, regStarted, regAcquired>>

\* The server asks for the next chunk: the generator resumes after its yield
\* (the next payload of the for loop, or back to while True).
StreamResume(c) ==
    /\ cpc[c] = "s_susp"
    /\ cpc' = [cpc EXCEPT ![c] = AfterChunk(items[c])]
    /\ UNCHANGED <<authVars, extVars, brokerVars, clientVars, client_id, items, newlist, reqVars, dbVars, histVars>>

\* The response is closed while the generator is suspended at a yield:
\* GeneratorExit is raised there and generator()'s finally calls unregister.
StreamClose(c) ==
    /\ cpc[c] = "s_susp"
    /\ cpc' = [cpc EXCEPT ![c] = "unreg_call"]
    /\ UNCHANGED <<authVars, extVars, brokerVars, clientVars, client_id, items, newlist, reqVars, dbVars, histVars>>

\* ======================================================== SseBroker.publish

\* mutant: the loop skips the first listed client
SnapshotSkipFirst(list) == IF list = <<>> THEN <<>> ELSE Tail(list)

\* publish: with self._lock: for _, client in list(self._clients)
Snapshot(list) == list

PublishAcquire(r) ==
    /\ rpc[r] = "pub_call"
    /\ LockFree
    /\ lock' = Req(r)
    /\ snap' = [snap EXCEPT ![r] = Snapshot(clients)]
    /\ rpc' = [rpc EXCEPT ![r] = "pub_iter"]
    /\ pubBase' = [pubBase EXCEPT ![r] = sent]
    /\ pubRegd' = [pubRegd EXCEPT ![r] = Listed(clients)]
    /\ UNCHANGED <<authVars, extVars, clients, next_id, clientVars, sseVars, rop, rows, pubEvent,
                   pubData, result, dbVars, sent, sentPid, yielded, regStarted, regAcquired>>

\* publish -> client.send: payload = f"..."; with self._cond
PublishSendAcquire(r) ==
    /\ rpc[r] = "pub_iter"
    /\ snap[r] # <<>>
    /\ CondFree(Head(snap[r])[2])
    /\ cond' = [cond EXCEPT ![Head(snap[r])[2]] = Req(r)]
    /\ rpc' = [rpc EXCEPT ![r] = "pub_send"]
    /\ UNCHANGED <<authVars, extVars, brokerVars, queue, sseVars, rop, rows, pubEvent, pubData,
                   snap, result, dbVars, histVars>>

\* send: self._queue.append(payload); self._cond.notify()  (the with block ends)
PublishSendAppend(r) ==
    /\ rpc[r] = "pub_send"
    /\ LET c == Head(snap[r])[2]
           payload == Payload(pubEvent[r], pubData[r])
       IN /\ queue' = [queue EXCEPT ![c] = Enqueue(@, payload)]
          /\ cond' = [cond EXCEPT ![c] = NoThread]
          /\ sent' = [sent EXCEPT ![c] = Append(@, payload)]
          /\ sentPid' = [sentPid EXCEPT ![c] = Append(@, r)]
    /\ snap' = [snap EXCEPT ![r] = Tail(@)]
    /\ rpc' = [rpc EXCEPT ![r] = "pub_iter"]
    /\ UNCHANGED <<authVars, extVars, brokerVars, sseVars, rop, rows, pubEvent, pubData, result,
                   dbVars, yielded, pubBase, pubRegd, regStarted, regAcquired>>

\* What each caller returns after publish returned.
Returned(r) ==
    IF rop[r].fn = "mark_attendance"
    THEN [status |-> 201, body |-> pubData[r]]   \* return {"event": event}, 201
    ELSE [status |-> 200, body |-> pubData[r]]   \* return data

\* publish: the loop is over, the with block ends and publish returns;
\* the model function returns data to its caller.
PublishRelease(r) ==
    /\ rpc[r] = "pub_iter"
    /\ snap[r] = <<>>
    /\ lock' = NoThread
    /\ rpc' = [rpc EXCEPT ![r] = "done"]
    /\ result' = [result EXCEPT ![r] = Returned(r)]
    /\ pubBase' = [pubBase EXCEPT ![r] = EmptyQueues]
    /\ pubRegd' = [pubRegd EXCEPT ![r] = {}]
    /\ UNCHANGED <<authVars, extVars, clients, next_id, clientVars, sseVars, rop, rows, pubEvent,
                   pubData, snap, dbVars, sent, sentPid, yielded, regStarted, regAcquired>>

\* ================================================================ database

\* An exception leaves the request (Flask answers 500).
Raised == [status |-> 500, body |-> NoData]

\* The row the INSERT statement of call `op` creates.
InsertedRow(op) ==
    IF op.fn = "create_class"
    THEN [id |-> nextRowId.classes, name |-> op.name, teacher_id |-> op.teacher_id]
    ELSE IF op.fn = "mark_attendance"
    THEN [id |-> nextRowId.attendance, class_id |-> op.class_id,
          user_id |-> op.user_id, status |-> op.status]
    ELSE [class_id |-> op.class_id, user_id |-> op.user_id]

\* fetch="one" for the two INSERT ... RETURNING, fetch="none" for class_members
Fetch(op) == IF op.fn = "add_student_to_class" THEN "none" ELSE "one"

\* What the database may do with the statement and the commit:
\*   "raise"        _execute raises (a constraint, the connection)
\*   "raise_commit" conn.commit() raises: the transaction is not committed
\*   "norow"        the statement succeeds and inserts no row (ON CONFLICT DO
\*                  NOTHING; RETURNING then gives no row: rows = [])
\*   "ok"           the row is inserted and the transaction committed
QueryOutcomes == {"ok", "norow", "raise", "raise_commit"}

\* the outcome leaves a committed row
Inserts(op, outcome) ==
    /\ outcome = "ok"
    /\ ~(op.fn = "add_student_to_class" /\ InsertedRow(op) \in class_members)

\* execute_query(query, params, fetch): one transaction of one statement.
\* An exception leaves execute_query before or at conn.commit(): nothing is
\* committed and nothing is returned.
ExecuteQuery(r, op, outcome) ==
    /\ rop' = [rop EXCEPT ![r] = op]
    /\ IF outcome \in {"raise", "raise_commit"}
       THEN /\ rpc' = [rpc EXCEPT ![r] = "done"]
            /\ result' = [result EXCEPT ![r] = Raised]
            /\ UNCHANGED <<rows, dbVars>>
       ELSE /\ rpc' = [rpc EXCEPT ![r] = "queried"]
            /\ result' = result
            /\ rows' = [rows EXCEPT ![r] =
                          IF Inserts(op, outcome) /\ Fetch(op) = "one"
                          THEN <<InsertedRow(op)>> ELSE <<>>]
            /\ classes' = IF Inserts(op, outcome) /\ op.fn = "create_class"
                          THEN classes \cup {InsertedRow(op)} ELSE classes
            /\ class_members' = IF Inserts(op, outcome) /\ op.fn = "add_student_to_class"
                                THEN class_members \cup {InsertedRow(op)} ELSE class_members
            /\ attendance' = IF Inserts(op, outcome) /\ op.fn = "mark_attendance"
                             THEN attendance \cup {InsertedRow(op)} ELSE attendance
            /\ nextRowId' =
                 IF Inserts(op, outcome) /\ op.fn = "create_class"
                 THEN [nextRowId EXCEPT !.classes = @ + 1]
                 ELSE IF Inserts(op, outcome) /\ op.fn = "mark_attendance"
                 THEN [nextRowId EXCEPT !.attendance = @ + 1]
                 ELSE nextRowId

\* ================================================================ models.py

\* request r arrives after request r - 1
Arrives(r) == rpc[r] = "idle" /\ (IF r = 1 THEN TRUE ELSE rpc[r - 1] # "idle")

\* the caller enters sse_broker.publish(event, data)
CallPublish(r, event, data) ==
    /\ pubEvent' = [pubEvent EXCEPT ![r] = event]
    /\ pubData' = [pubData EXCEPT ![r] = data]
    /\ rpc' = [rpc EXCEPT ![r] = "pub_call"]
    /\ result' = result

\* return {}
ReturnEmpty(r) ==
    /\ rpc' = [rpc EXCEPT ![r] = "done"]
    /\ result' = [result EXCEPT ![r] =
                    [status |-> IF rop[r].fn = "mark_attendance" THEN 201 ELSE 200,
                     body |-> NoData]]
    /\ UNCHANGED <<pubEvent, pubData>>

\* create_class(name, teacher_id): rows, cols = execute_query(INSERT ... RETURNING ...)
CreateClass(r) ==
    /\ Arrives(r)
    /\ \E outcome \in QueryOutcomes :
          ExecuteQuery(r, [fn |-> "create_class", name |-> "math", teacher_id |-> 1], outcome)
    /\ UNCHANGED <<authVars, extVars, brokerVars, clientVars, sseVars, pubEvent, pubData, snap, histVars>>

\* create_class: if rows: data = dict(zip(cols, rows[0])); publish("class_created", data)
CreateClassPublish(r) ==
    /\ rpc[r] = "queried"
    /\ rop[r].fn = "create_class"
    /\ IF rows[r] # <<>>
       THEN CallPublish(r, "class_created", rows[r][1])
       ELSE ReturnEmpty(r)
    /\ rows' = [rows EXCEPT ![r] = <<>>]
    /\ UNCHANGED <<authVars, extVars, brokerVars, clientVars, sseVars, rop, snap, dbVars, histVars>>

\* add_student_to_class(class_id, user_id): execute_query(INSERT ... ON CONFLICT DO NOTHING)
AddStudentToClass(r) ==
    /\ Arrives(r)
    /\ \E outcome \in QueryOutcomes :
          ExecuteQuery(r, [fn |-> "add_student_to_class", class_id |-> 1, user_id |-> 1],
                       outcome)
    /\ UNCHANGED <<authVars, extVars, brokerVars, clientVars, sseVars, pubEvent, pubData, snap, histVars>>

\* add_student_to_class: data = {"class_id": ..., "user_id": ...};
\* publish("class_member_added", data), whether or not a row was inserted
AddStudentPublish(r) ==
    /\ rpc[r] = "queried"
    /\ rop[r].fn = "add_student_to_class"
    /\ CallPublish(r, "class_member_added",
                   [class_id |-> rop[r].class_id, user_id |-> rop[r].user_id])
    /\ rows' = [rows EXCEPT ![r] = <<>>]
    /\ UNCHANGED <<authVars, extVars, brokerVars, clientVars, sseVars, rop, snap, dbVars, histVars>>

\* mutant: the event is published under another name
MarkAttendancePublishRenamed(r) ==
    /\ rpc[r] = "queried"
    /\ rop[r].fn = "mark_attendance"
    /\ IF rows[r] # <<>>
       THEN CallPublish(r, "attendance_updated", rows[r][1])
       ELSE ReturnEmpty(r)
    /\ rows' = [rows EXCEPT ![r] = <<>>]
    /\ UNCHANGED <<authVars, extVars, brokerVars, clientVars, sseVars, rop, snap, dbVars, histVars>>

\* mutant: the event is published without the `if rows` test
MarkAttendancePublishUnchecked(r) ==
    /\ rpc[r] = "queried"
    /\ rop[r].fn = "mark_attendance"
    /\ CallPublish(r, "attendance_marked",
                   IF rows[r] # <<>> THEN rows[r][1] ELSE InsertedRow(rop[r]))
    /\ rows' = [rows EXCEPT ![r] = <<>>]
    /\ UNCHANGED <<authVars, extVars, brokerVars, clientVars, sseVars, rop, snap, dbVars, histVars>>

\* mark_attendance: if rows: data = dict(zip(cols, rows[0])); publish("attendance_marked", data)
MarkAttendancePublish(r) ==
    /\ rpc[r] = "queried"
    /\ rop[r].fn = "mark_attendance"
    /\ IF rows[r] # <<>>
       THEN CallPublish(r, "attendance_marked", rows[r][1])
       ELSE ReturnEmpty(r)
    /\ rows' = [rows EXCEPT ![r] = <<>>]
    /\ UNCHANGED <<authVars, extVars, brokerVars, clientVars, sseVars, rop, snap, dbVars, histVars>>

\* ====================================================== routes/attendance.py

\* MarkSchema: class_id and user_id required integers, status required and
\* one of present, absent, late; a field the schema does not know is an error.
StatusValues == {"present", "absent", "late"}
SchemaFields == {"class_id", "user_id", "status"}
MarkSchemaErrors(body) ==
    {f \in SchemaFields : f \notin DOMAIN body}
    \cup (DOMAIN body \ SchemaFields)
    \cup (IF "status" \in DOMAIN body
          THEN (IF body.status \in StatusValues THEN {} ELSE {"status"})
          ELSE {})

\* the request bodies tried
Bodies ==
    { [class_id |-> 1, user_id |-> 1, status |-> "present"],
      [class_id |-> 1, user_id |-> 1, status |-> "sick"],
      [class_id |-> 1, status |-> "present"],
      [user_id |-> 1, status |-> "absent"],
      [class_id |-> 1, user_id |-> 1],
      [other |-> 1] }

\* the call a rejected POST /attendance never makes
Rejected == [fn |-> "post_attendance"]

\* POST /attendance: errors = MarkSchema().validate(payload): 400;
\* ensure_schema() (idempotent DDL; it may raise like any statement);
\* mark_attendance(class_id, user_id, status): rows, cols = execute_query(INSERT ...)
AttendancePost(r) ==
    /\ Arrives(r)
    /\ \E body \in Bodies, schemaOk \in BOOLEAN, outcome \in QueryOutcomes :
          IF MarkSchemaErrors(body) # {}
          THEN /\ rpc' = [rpc EXCEPT ![r] = "done"]
               /\ result' = [result EXCEPT ![r] = [status |-> 400, body |-> NoData]]
               /\ rop' = [rop EXCEPT ![r] = Rejected]
               /\ UNCHANGED <<rows, dbVars>>
          ELSE IF ~schemaOk
          THEN /\ rpc' = [rpc EXCEPT ![r] = "done"]
               /\ result' = [result EXCEPT ![r] = Raised]
               /\ rop' = [rop EXCEPT ![r] = Rejected]
               /\ UNCHANGED <<rows, dbVars>>
          ELSE ExecuteQuery(r, [fn |-> "mark_attendance", class_id |-> body.class_id,
                                user_id |-> body.user_id, status |-> body.status], outcome)
    /\ UNCHANGED <<authVars, extVars, brokerVars, clientVars, sseVars, pubEvent, pubData, snap, histVars>>

\* ==================================================================== Spec
Next ==
    \/ \E c \in Clients :
          \/ SseGet(c) \/ Register(c)
          \/ StreamStart(c) \/ CloseUnstarted(c) \/ StreamEnter(c)
          \/ StreamWake(c) \/ StreamDrain(c) \/ StreamYield(c)
          \/ StreamResume(c) \/ StreamClose(c)
          \/ UnregisterAcquire(c) \/ UnregisterFilter(c) \/ UnregisterWrite(c)
    \/ \E r \in Requests :
          \/ CreateClass(r) \/ CreateClassPublish(r)
          \/ AddStudentToClass(r) \/ AddStudentPublish(r)
          \/ AttendancePost(r) \/ MarkAttendancePublish(r)
          \/ PublishAcquire(r) \/ PublishSendAcquire(r) \/ PublishSendAppend(r)
          \/ PublishRelease(r)

Spec == Init /\ [][Next]_vars

\* ================================================================== auth.py

\* ---- text: an email or a header is a sequence of characters / words
None == <<>>
Some(v) == <<v>>

LowerChar(ch) == IF ch = "A" THEN "a" ELSE ch

\* str.lower()
RECURSIVE Lower(_)
Lower(s) == IF s = <<>> THEN <<>> ELSE <<LowerChar(Head(s))>> \o Lower(Tail(s))

RECURSIVE LStrip(_, _)
LStrip(s, sp) == IF s # <<>> /\ Head(s) = sp THEN LStrip(Tail(s), sp) ELSE s

RECURSIVE RStrip(_, _)
RStrip(s, sp) ==
    IF s # <<>> /\ s[Len(s)] = sp THEN RStrip(SubSeq(s, 1, Len(s) - 1), sp) ELSE s

\* str.strip()
Strip(s, sp) == RStrip(LStrip(s, sp), sp)

\* data["email"].strip().lower()
Normalize(s) == Lower(Strip(s, " "))

\* ---- JwtConfig
\* os.getenv("TOKEN_EXP_MIN", "60")
DefaultExpMin == 60
ExpText(e) == IF e.exp = "unset" THEN "60" ELSE e.exp

\* int(text): <<n>>, or <<>> when int() raises ValueError
ParseInt(text) ==
    IF text = "60" THEN Some(DefaultExpMin)
    ELSE IF text = "1" THEN Some(1)
    ELSE None

\* JwtConfig.from_env(): an unset or empty JWT_SECRET raises RuntimeError, an
\* unparsable TOKEN_EXP_MIN raises ValueError
FromEnv(e) ==
    IF e.secret = ""
    THEN [raised |-> "RuntimeError", secret |-> "", algo |-> "HS256", exp_minutes |-> 0]
    ELSE IF ParseInt(ExpText(e)) = None
    THEN [raised |-> "ValueError", secret |-> e.secret, algo |-> "HS256", exp_minutes |-> 0]
    ELSE [raised |-> "no", secret |-> e.secret, algo |-> "HS256",
          exp_minutes |-> ParseInt(ExpText(e))[1]]

\* the environments a deployment may run with
Envs ==
    [secret : {"k1"}, exp : {"unset", "1", "abc"}] \cup {[secret |-> "", exp |-> "unset"]}

\* ---- tokens
\* a JWT is its payload and the key that signed it; a claim is <<v>> or absent
EmptyPayload == [sub |-> None, role |-> None, nbf |-> None, exp |-> None]
Garbage == [form |-> "garbage", key |-> "", payload |-> EmptyPayload]

\* jwt.encode(payload, key, algorithm="HS256")
Encode(payload, key) == [form |-> "jwt", key |-> key, payload |-> payload]

\* _issue_token(sub, role) at time t: iat = nbf = t, exp = t + exp_minutes
IssueToken(sub, role, e, t) ==
    LET cfg == FromEnv(e) IN
    IF cfg.raised # "no"
    THEN [raised |-> cfg.raised, token |-> None]
    ELSE [raised |-> "no",
          token |-> Some(Encode([sub |-> Some(sub), role |-> Some(role),
                                 nbf |-> Some(t),
                                 exp |-> Some(t + cfg.exp_minutes)], cfg.secret))]

\* mutant: the expiry claim is not looked at
DecodeIgnoringExp(tok, key, t) ==
    IF tok.form # "jwt" THEN "DecodeError"
    ELSE IF tok.key # key THEN "InvalidSignatureError"
    ELSE IF tok.payload.nbf # None /\ tok.payload.nbf[1] > t THEN "ImmatureSignatureError"
    ELSE "ok"

\* jwt.decode(token, key, algorithms=["HS256"]) at time t: the signature, then
\* nbf, then exp
Decode(tok, key, t) ==
    IF tok.form # "jwt" THEN "DecodeError"
    ELSE IF tok.key # key THEN "InvalidSignatureError"
    ELSE IF tok.payload.nbf # None /\ tok.payload.nbf[1] > t THEN "ImmatureSignatureError"
    ELSE IF tok.payload.exp # None /\ tok.payload.exp[1] <= t THEN "ExpiredSignatureError"
    ELSE "ok"

\* _verify_token(token): (is_valid, payload, error_message)
VerifyToken(tok, e, t) ==
    LET cfg == FromEnv(e) IN
    IF cfg.raised # "no"
    THEN [ok |-> FALSE, payload |-> None, err |-> "Unexpected token verification error."]
    ELSE IF Decode(tok, cfg.secret, t) = "ok"
    THEN [ok |-> TRUE, payload |-> Some(tok.payload), err |-> ""]
    ELSE IF Decode(tok, cfg.secret, t) = "ExpiredSignatureError"
    THEN [ok |-> FALSE, payload |-> None, err |-> "Token has expired."]
    ELSE [ok |-> FALSE, payload |-> None, err |-> "Invalid token"]

\* `not payload`: None or an empty dict
Falsy(payload) == payload = None \/ payload[1] = EmptyPayload

\* ---- the Authorization header: a sequence of words, spaces and a token
Word(w) == [word |-> w]
IsToken(x) == "form" \in DOMAIN x

\* auth_header.startswith("Bearer ")
StartsWithBearer(h) == Len(h) >= 2 /\ h[1] = Word("Bearer") /\ h[2] = Word(" ")

\* auth_header.split(" ", 1)[1].strip()
BearerToken(h) ==
    LET rest == Strip(SubSeq(h, 3, Len(h)), Word(" ")) IN
    IF Len(rest) = 1 /\ IsToken(rest[1]) THEN rest[1] ELSE Garbage

\* ---- decorators
\* jwt_required at time t: `passed` says the wrapped function is called, with
\* g.user_email and g.user_role as given
JwtRequired(h, e, t) ==
    LET v == VerifyToken(BearerToken(h), e, t) IN
    IF ~StartsWithBearer(h)
    THEN [passed |-> FALSE, status |-> 401, g_email |-> None, g_role |-> None]
    ELSE IF ~v.ok \/ Falsy(v.payload)
    THEN [passed |-> FALSE, status |-> 401, g_email |-> None, g_role |-> None]
    ELSE [passed |-> TRUE, status |-> 200,
          g_email |-> v.payload[1].sub, g_role |-> v.payload[1].role]

\* mutant: every role is let through
RoleAllowedAlways(role, roles) == TRUE

\* `role in roles`, role being None for an absent claim
RoleAllowed(role, roles) == role # None /\ role[1] \in roles

\* roles_required(*roles): jwt_required first, then the role
RolesRequired(roles, h, e, t) ==
    LET j == JwtRequired(h, e, t) IN
    IF ~j.passed THEN j
    ELSE IF ~RoleAllowed(j.g_role, roles)
    THEN [passed |-> FALSE, status |-> 403, g_email |-> j.g_email, g_role |-> j.g_role]
    ELSE j

\* ---- request bodies
ValidRoles == {"student", "teacher", "admin"}
EmptyDict == [kind |-> "dict", keys |-> {}, email |-> <<>>, password |-> "", role |-> ""]

\* request.get_json(silent=True) or {}
GetJson(body) == IF body.kind \in {"none", "empty_list"} THEN EmptyDict ELSE body

\* _validate_signup_payload(data): "" for None
ValidateSignupPayload(data) ==
    IF data.kind # "dict" THEN "Invalid JSON."
    ELSE IF "email" \notin data.keys \/ data.email = <<>> THEN "Email is required."
    ELSE IF "password" \notin data.keys \/ data.password = "" THEN "Password is required."
    ELSE IF "role" \notin data.keys \/ data.role = "" THEN "Role is required."
    ELSE IF data.role \notin ValidRoles
    THEN "Role must be one of: student, teacher, admin."
    ELSE ""

\* _validate_login_payload(data): "" for None
ValidateLoginPayload(data) ==
    IF data.kind # "dict" THEN "Invalid JSON."
    ELSE IF "email" \notin data.keys \/ data.email = <<>> THEN "Email is required."
    ELSE IF "password" \notin data.keys \/ data.password = "" THEN "Password is required."
    ELSE ""

\* ---- password hashes: a salted digest, equal only for the same password and salt
Salts == {"s1", "s2"}
Digest(password, salt) == <<"pbkdf2", password, salt>>
GeneratePasswordHash(password, salt) == [salt |-> salt, digest |-> Digest(password, salt)]
CheckPasswordHash(pwhash, password) == pwhash.digest = Digest(password, pwhash.salt)

\* _USERS[email] = record
Store(u, email, record) ==
    [x \in DOMAIN u \cup {email} |-> IF x = email THEN record ELSE u[x]]

\* ---- what a handler answered: the request, the store it found, the answer
Answer(handler, header, body, status, invoked, g_email, g_role, token) ==
    [handler |-> handler, at |-> now, header |-> header, body |-> body, store |-> users,
     status |-> status, invoked |-> invoked, g_email |-> g_email, g_role |-> g_role,
     token |-> token]

\* the request bodies sent to /auth/signup and /auth/login
EmailInputs == {<<>>, <<" ">>, <<"a">>, <<"A", " ">>}
NoJson == [kind |-> "none", keys |-> {}, email |-> <<>>, password |-> "", role |-> ""]
EmptyList == [kind |-> "empty_list", keys |-> {}, email |-> <<>>, password |-> "", role |-> ""]
SomeList == [kind |-> "list", keys |-> {}, email |-> <<>>, password |-> "", role |-> ""]
Without(body, key) == [body EXCEPT !.keys = @ \ {key}]
FullBody == [kind |-> "dict", keys |-> {"email", "password", "role"},
             email |-> <<"a">>, password |-> "p", role |-> "admin"]
SignupBodies ==
    [kind : {"dict"}, keys : {FullBody.keys}, email : EmailInputs, password : {"p"},
     role : {"student", "admin"}]
    \cup {[FullBody EXCEPT !.password = ""], [FullBody EXCEPT !.role = ""],
          [FullBody EXCEPT !.role = "root"],
          [FullBody EXCEPT !.password = "", !.role = "root"]}
    \cup {Without(FullBody, k) : k \in FullBody.keys}
    \cup {NoJson, EmptyList, SomeList}
LoginBodies ==
    [kind : {"dict"}, keys : {{"email", "password"}}, email : EmailInputs,
     password : {"p", "q"}, role : {""}]
    \cup {[FullBody EXCEPT !.password = ""], FullBody, [FullBody EXCEPT !.email = <<"A", " ">>]}
    \cup {Without(FullBody, k) : k \in {"email", "password"}}
    \cup {NoJson, EmptyList, SomeList}

\* ---- handlers
\* mutant: the role is looked at before the email and the password
ValidateRoleFirst(data) ==
    IF data.kind # "dict" THEN "Invalid JSON."
    ELSE IF "role" \notin data.keys \/ data.role = "" THEN "Role is required."
    ELSE IF data.role \notin ValidRoles
    THEN "Role must be one of: student, teacher, admin."
    ELSE IF "email" \notin data.keys \/ data.email = <<>> THEN "Email is required."
    ELSE IF "password" \notin data.keys \/ data.password = "" THEN "Password is required."
    ELSE ""

\* error = _validate_signup_payload(data)
SignupError(data) == ValidateSignupPayload(data)

\* jsonify({"message": ...}), status: what signup answered
SignupAnswer(body, status, message, token) ==
    [handler |-> "signup", at |-> now, header |-> <<>>, body |-> body, store |-> users,
     status |-> status, invoked |-> FALSE, g_email |-> None, g_role |-> None,
     token |-> token, message |-> message]

\* except RuntimeError: str(cfg_err); except Exception: "Internal server error"
SignupFailure(raised) ==
    IF raised = "RuntimeError" THEN "Missing JWT_SECRET environment variable."
    ELSE "Internal server error"

\* POST /auth/signup
Signup(body, salt) ==
    LET data == GetJson(body)
        error == SignupError(data)
        email == Normalize(data.email)
        record == [password_hash |-> GeneratePasswordHash(data.password, salt),
                   role |-> data.role, created_at |-> now]
        issued == IssueToken(email, data.role, env, now)
    IN  /\ IF error # ""
           THEN /\ resp' = SignupAnswer(body, 400, error, None)
                /\ users' = users
           ELSE IF email \in DOMAIN users
           THEN /\ resp' = SignupAnswer(body, 409, "User already exists.", None)
                /\ users' = users
           ELSE /\ users' = Store(users, email, record)
                /\ resp' = IF issued.raised # "no"
                           THEN SignupAnswer(body, 500, SignupFailure(issued.raised), None)
                           ELSE SignupAnswer(body, 201, "", issued.token)
        /\ UNCHANGED <<env, now, brokerVars, clientVars, sseVars, reqVars, dbVars, histVars, extVars>>

\* mutant: the role of the token is the one the request names
LoginRoleFromBody(user, data) == IF "role" \in data.keys THEN data.role ELSE user.role

\* user["role"]
LoginRole(user, data) == user.role

\* POST /auth/login
Login(body) ==
    LET data == GetJson(body)
        error == ValidateLoginPayload(data)
        email == Normalize(data.email)
    IN  /\ resp' =
              IF error # ""
              THEN Answer("login", <<>>, body, 400, FALSE, None, None, None)
              ELSE IF email \notin DOMAIN users
              THEN Answer("login", <<>>, body, 401, FALSE, None, None, None)
              ELSE IF ~CheckPasswordHash(users[email].password_hash, data.password)
              THEN Answer("login", <<>>, body, 401, FALSE, None, None, None)
              ELSE LET issued == IssueToken(email, LoginRole(users[email], data), env, now)
                   IN  IF issued.raised # "no"
                       THEN Answer("login", <<>>, body, 500, FALSE, None, None, None)
                       ELSE Answer("login", <<>>, body, 200, FALSE, None, None,
                                   issued.token)
        /\ UNCHANGED <<users, env, now, brokerVars, clientVars, sseVars, reqVars, dbVars,
                       histVars, extVars>>

\* the tokens a caller may present: foreign ones and the one last issued
Signed(sub, role, nbf, exp) ==
    Encode([sub |-> sub, role |-> role, nbf |-> nbf, exp |-> exp], "k1")
GoodToken == Signed(Some(<<"a">>), Some("admin"), None, None)
LastIssued ==
    IF resp.handler \in {"signup", "login"} THEN {resp.token[i] : i \in DOMAIN resp.token}
    ELSE {}
Tokens ==
    {GoodToken, Encode(EmptyPayload, "k1"), Encode(GoodToken.payload, "k2"), Garbage,
     Signed(Some(<<"a">>), Some("student"), None, None),
     Signed(Some(<<"a">>), None, None, None),
     Signed(None, Some("admin"), None, None),
     Signed(Some(<<"a">>), Some("admin"), Some(1), None),
     Signed(Some(<<"a">>), Some("admin"), None, Some(1))}
    \cup LastIssued

\* the Authorization headers a caller may send; <<>> when there is none
Headers ==
    {<<Word("Bearer"), Word(" "), tok>> : tok \in Tokens}
    \cup {<<>>,
          <<Word("Bearer")>>,
          <<Word("Bearer"), Word(" ")>>,
          <<Word("Bearer"), GoodToken>>,
          <<Word("bearer"), Word(" "), GoodToken>>,
          <<Word("Basic"), Word(" "), GoodToken>>,
          <<Word("Bearer"), Word(" "), Word(" "), GoodToken, Word(" ")>>,
          <<Word("Bearer"), Word(" "), GoodToken, Word(" "), GoodToken>>}

\* GET /auth/me, under @jwt_required
Me(h) ==
    LET j == JwtRequired(h, env, now) IN
    /\ resp' = Answer("me", h, NoJson, j.status, j.passed, j.g_email, j.g_role, None)
    /\ UNCHANGED <<users, env, now, brokerVars, clientVars, sseVars, reqVars, dbVars,
                   histVars, extVars>>

\* GET /auth/admin/ping, under @roles_required("admin")
AdminPing(h) ==
    LET j == RolesRequired({"admin"}, h, env, now) IN
    /\ resp' = Answer("admin_ping", h, NoJson, j.status, j.passed, j.g_email, j.g_role,
                      None)
    /\ UNCHANGED <<users, env, now, brokerVars, clientVars, sseVars, reqVars, dbVars,
                   histVars, extVars>>

\* datetime.datetime.utcnow() moves on
Tick ==
    /\ now < MaxTime
    /\ now' = now + 1
    /\ UNCHANGED <<users, env, resp, brokerVars, clientVars, sseVars, reqVars, dbVars,
                   histVars, extVars>>

\* the process starts with an empty store under any environment
InitAuth ==
    /\ InitBroker
    /\ ExtAtStart
    /\ users = NoUsers
    /\ env \in Envs
    /\ now = 0
    /\ resp = NoResp

NextAuth ==
    \/ \E body \in SignupBodies, salt \in Salts : Signup(body, salt)
    \/ \E body \in LoginBodies : Login(body)
    \/ \E h \in Headers : Me(h)
    \/ \E h \in Headers : AdminPing(h)
    \/ Tick

SpecAuth == InitAuth /\ [][NextAuth]_vars

\* ================================================ services/firebase_client.py

\* ---- JSON values of token claims: a tag and, but for null, a value
Absent == [t |-> "absent"]
Null == [t |-> "none"]
Bool(b) == [t |-> "bool", b |-> b]
Num(n) == [t |-> "int", n |-> n]
Str(s) == [t |-> "str", s |-> s]
List(s) == [t |-> "list", l |-> s]

\* claims.get(key): None for a key that is not there
ClaimsGet(claims, key) == IF claims[key] = Absent THEN Null ELSE claims[key]

\* the truth value Python gives a value
Truthy(x) ==
    IF x.t = "bool" THEN x.b
    ELSE IF x.t = "int" THEN x.n # 0
    ELSE IF x.t = "str" THEN x.s # ""
    ELSE IF x.t = "list" THEN x.l # <<>>
    ELSE FALSE

\* mutant: any truthy flag counts
IsTruthy(x) == Truthy(x)

\* `value is True`
IsTrue(x) == x = Bool(TRUE)

\* for key in ("admin", "teacher", "student", "editor", "viewer")
FlagKeys == <<"admin", "teacher", "student", "editor", "viewer">>

\* the loop that appends to computed_roles, from the i-th key on
RECURSIVE ComputedRoles(_, _)
ComputedRoles(claims, i) ==
    IF i > Len(FlagKeys) THEN <<>>
    ELSE (IF IsTrue(ClaimsGet(claims, FlagKeys[i])) THEN <<FlagKeys[i]>> ELSE <<>>)
         \o ComputedRoles(claims, i + 1)

\* get_user_roles_from_claims(claims)
GetUserRolesFromClaims(claims) ==
    LET roles == IF ClaimsGet(claims, "roles") = Null
                 THEN List(ComputedRoles(claims, 1))
                 ELSE ClaimsGet(claims, "roles")
    IN  IF Truthy(roles) THEN roles ELSE List(<<>>)

\* the decoded claims a Firebase ID token may carry
RolesValues ==
    {Absent, Null, List(<<>>), List(<<"teacher">>), Str(""), Str("admin"), Bool(FALSE),
     Bool(TRUE), Num(0)}
NoFlags ==
    [uid |-> Str("u1"), roles |-> Absent, admin |-> Absent, teacher |-> Absent,
     student |-> Absent, editor |-> Absent, viewer |-> Absent]
FlagPatterns ==
    {NoFlags,
     [NoFlags EXCEPT !.admin = Bool(TRUE), !.viewer = Bool(TRUE)],
     [NoFlags EXCEPT !.admin = Num(1), !.teacher = Bool(TRUE), !.student = Bool(FALSE)],
     [NoFlags EXCEPT !.uid = Absent, !.viewer = Bool(TRUE), !.editor = Bool(TRUE),
                     !.student = Bool(TRUE), !.teacher = Str("yes")]}
ClaimsInputs == {[c EXCEPT !.roles = r] : c \in FlagPatterns, r \in RolesValues}

\* ---- credentials
\* what FIREBASE_SERVICE_ACCOUNT_JSON holds: nothing, "", text that is not
\* JSON, JSON that is no service account, a service account; and what
\* GOOGLE_APPLICATION_CREDENTIALS names: nothing, no file, a file that is no
\* service account, a service account file
JsonKinds == {"unset", "empty", "malformed", "not_cert", "cert"}
PathKinds == {"unset", "missing", "bad_file", "cert_file"}
FbEnvs == [json : JsonKinds, path : PathKinds]

\* credentials.Certificate(data or path): the certificate, or ValueError
Certificate(kind) ==
    IF kind \in {"cert", "cert_file"}
    THEN [raised |-> "no", cred |-> Some(kind)]
    ELSE [raised |-> "ValueError", cred |-> None]

\* mutant: the file is looked at first
LoadCredentialsFileFirst(e) ==
    IF e.path \in {"bad_file", "cert_file"} THEN Certificate(e.path)
    ELSE IF e.json \notin {"unset", "empty", "malformed"} THEN Certificate(e.json)
    ELSE [raised |-> "no", cred |-> None]

\* _load_credentials_from_env(): only a JSONDecodeError falls through to the file
LoadCredentialsFromEnv(e) ==
    IF e.json \notin {"unset", "empty", "malformed"} THEN Certificate(e.json)
    ELSE IF e.path \in {"bad_file", "cert_file"} THEN Certificate(e.path)
    ELSE [raised |-> "no", cred |-> None]

\* firebase_admin.initialize_app(cred): the default app
App(cred) == [name |-> "[DEFAULT]", cred |-> cred]

\* initialize_firebase_app() with apps initialized: what it returns or raises,
\* the apps afterwards, and whether it read the credentials
InitializeFirebaseApp(apps, e) ==
    LET loaded == LoadCredentialsFromEnv(e) IN
    IF apps # {}
    THEN [raised |-> "no", app |-> CHOOSE a \in apps : TRUE, apps |-> apps,
          read |-> FALSE, init |-> FALSE]
    ELSE IF loaded.raised # "no"
    THEN [raised |-> loaded.raised, app |-> App(None), apps |-> apps, read |-> TRUE,
          init |-> FALSE]
    ELSE IF loaded.cred = None
    THEN [raised |-> "RuntimeError", app |-> App(None), apps |-> apps, read |-> TRUE,
          init |-> FALSE]
    ELSE [raised |-> "no", app |-> App(loaded.cred[1]), apps |-> {App(loaded.cred[1])},
          read |-> TRUE, init |-> TRUE]

\* the history of reads and initializations after a call
Counted(loads, call) ==
    [reads |-> loads.reads + (IF call.read THEN 1 ELSE 0),
     inits |-> loads.inits + (IF call.init THEN 1 ELSE 0)]

\* ---- Firebase ID tokens: what Firebase says of them and the claims they carry
IdToken(verdict, claims) == [form |-> "firebase", verdict |-> verdict, claims |-> claims]

\* auth.verify_id_token(id_token)
AuthVerifyIdToken(tok) ==
    IF tok.form = "firebase" /\ tok.verdict = "ok"
    THEN [raised |-> "no", claims |-> Some(tok.claims)]
    ELSE IF tok.form = "firebase" /\ tok.verdict = "expired"
    THEN [raised |-> "ExpiredIdTokenError", claims |-> None]
    ELSE [raised |-> "InvalidIdTokenError", claims |-> None]

\* verify_id_token(id_token): initialize_firebase_app() first
VerifyIdToken(tok, apps, e) ==
    LET call == InitializeFirebaseApp(apps, e)
        decoded == AuthVerifyIdToken(tok)
    IN  IF call.raised # "no"
        THEN [raised |-> call.raised, claims |-> None, call |-> call]
        ELSE [raised |-> decoded.raised, claims |-> decoded.claims, call |-> call]

\* ========================================================= middleware/auth.py

\* whitespace as str.split() sees it
IsSpace(x) == x \in {Word(" "), Word("\t")}

\* the length of the run of items before the next whitespace
RECURSIVE RunLen(_)
RunLen(h) == IF h = <<>> \/ IsSpace(Head(h)) THEN 0 ELSE 1 + RunLen(Tail(h))

\* authz.split(): the runs between whitespace
RECURSIVE Split(_)
Split(h) ==
    IF h = <<>> THEN <<>>
    ELSE IF IsSpace(Head(h)) THEN Split(Tail(h))
    ELSE <<SubSeq(h, 1, RunLen(h))>> \o Split(SubSeq(h, RunLen(h) + 1, Len(h)))

\* str.lower() of a word of the header
LowerWord(w) ==
    IF w \in {"Bearer", "BEARER", "bearer"} THEN "bearer"
    ELSE IF w \in {"Basic", "basic"} THEN "basic"
    ELSE w

\* mutant: any scheme passes
IsBearerAlways(part) == TRUE

\* parts[0].lower() == "bearer"
IsBearer(part) ==
    Len(part) = 1 /\ ~IsToken(part[1]) /\ LowerWord(part[1].word) = "bearer"

\* what a part of the header reads as when taken for the token
AsToken(part) == IF Len(part) = 1 /\ IsToken(part[1]) THEN part[1] ELSE Garbage

\* _extract_bearer_token(): the token, or None
ExtractBearerToken(h) ==
    IF h = <<>> THEN None
    ELSE IF Len(Split(h)) = 2 /\ IsBearer(Split(h)[1]) THEN Some(AsToken(Split(h)[2]))
    ELSE None

\* the ID tokens and Authorization headers a caller may send
TeacherClaims ==
    [uid |-> Str("u1"), roles |-> List(<<"teacher">>), admin |-> Bool(TRUE),
     teacher |-> Absent, student |-> Absent, editor |-> Absent, viewer |-> Absent]
FlagClaims ==
    [uid |-> Absent, roles |-> Absent, admin |-> Bool(TRUE), teacher |-> Absent,
     student |-> Bool(FALSE), editor |-> Absent, viewer |-> Bool(TRUE)]
OkToken == IdToken("ok", TeacherClaims)
IdTokens ==
    {OkToken, IdToken("ok", FlagClaims), IdToken("expired", TeacherClaims),
     IdToken("invalid", TeacherClaims), Garbage}
FbHeaders ==
    {<<Word("Bearer"), Word(" "), tok>> : tok \in IdTokens}
    \cup {<<>>,
          <<Word("Bearer")>>,
          <<OkToken>>,
          <<Word("Bearer"), OkToken>>,
          <<Word("bearer"), Word(" "), OkToken>>,
          <<Word("BEARER"), Word("\t"), OkToken>>,
          <<Word("Basic"), Word(" "), OkToken>>,
          <<Word(" "), Word("Bearer"), Word(" "), Word(" "), OkToken, Word(" ")>>,
          <<Word("Bearer"), Word(" "), OkToken, Word(" "), OkToken>>,
          <<Word("Bearer"), Word(" "), OkToken, OkToken>>}

\* ---- calls
MaxLoads == 2

\* get_user_roles_from_claims(claims)
GetUserRoles(claims) ==
    /\ fbResp' = [fn |-> "get_user_roles_from_claims", claims |-> claims,
                  result |-> GetUserRolesFromClaims(claims)]
    /\ UNCHANGED <<fbEnv, fbApps, fbLoads, coreVars, notFbVars>>

\* initialize_firebase_app()
InitializeCall ==
    LET call == InitializeFirebaseApp(fbApps, fbEnv) IN
    /\ fbLoads.reads < MaxLoads
    /\ fbApps' = call.apps
    /\ fbLoads' = Counted(fbLoads, call)
    /\ fbResp' = [fn |-> "initialize_firebase_app", env |-> fbEnv, before |-> fbApps,
                  loads |-> fbLoads, raised |-> call.raised, app |-> call.app]
    /\ UNCHANGED <<fbEnv, coreVars, notFbVars>>

\* a request to a handler under @firebase_auth_required
FirebaseAuthRequired(h) ==
    LET token == ExtractBearerToken(h)
        verified == VerifyIdToken(token[1], fbApps, fbEnv)
        refused == [fn |-> "firebase_auth_required", header |-> h, env |-> fbEnv,
                    before |-> fbApps, status |-> 401, invoked |-> FALSE,
                    g_claims |-> None, g_user_id |-> None, g_roles |-> None]
    IN  /\ fbLoads.reads < MaxLoads
        /\ IF token = None
           THEN /\ fbResp' = refused
                /\ UNCHANGED <<fbApps, fbLoads>>
           ELSE /\ fbApps' = verified.call.apps
                /\ fbLoads' = Counted(fbLoads, verified.call)
                /\ fbResp' =
                      IF verified.raised # "no" THEN refused
                      ELSE [refused EXCEPT
                               !.status = 200, !.invoked = TRUE,
                               !.g_claims = verified.claims,
                               !.g_user_id = Some(ClaimsGet(verified.claims[1], "uid")),
                               !.g_roles = Some(GetUserRolesFromClaims(verified.claims[1]))]
        /\ UNCHANGED <<fbEnv, coreVars, notFbVars>>

\* the environment changes between calls: a variable is set, a file appears
Reconfigure(e) ==
    /\ e # fbEnv
    /\ fbEnv' = e
    /\ UNCHANGED <<fbApps, fbLoads, fbResp, coreVars, notFbVars>>

InitFirebase ==
    /\ InitBroker
    /\ AuthAtStart
    /\ AppAtStart
    /\ RestAtStart
    /\ fbEnv = NoCredentials
    /\ fbApps = {}
    /\ fbLoads = [reads |-> 0, inits |-> 0]
    /\ fbResp = NoCall

NextFirebase ==
    \/ \E claims \in ClaimsInputs : GetUserRoles(claims)
    \/ InitializeCall
    \/ \E h \in FbHeaders : FirebaseAuthRequired(h)
    \/ \E e \in FbEnvs : Reconfigure(e)

SpecFirebase == InitFirebase /\ [][NextFirebase]_vars

\* ============================================================ app/__init__.py

Healthy == [status |-> 200, body |-> "Healthy"]

\* a URL rule: the path, the endpoint and what its view answers
Rule(path, endpoint, answer) == [path |-> path, endpoint |-> endpoint, answer |-> answer]

\* the blueprints create_app imports, and the rule each adds at the paths looked at
Blueprints == <<"Health", "Auth", "Classes">>
BlueprintRules(bp) ==
    IF bp = "Health" THEN <<Rule("/", "Health.HealthCheck", Healthy)>> ELSE <<>>

\* mutant: an exception at a step leaves create_app
EscapesAt(step) == "crashed"

\* where create_app goes on after an exception at a step: the except clause
\* that catches it
CaughtAt(step) ==
    IF step \in {"db_import", "init_engine", "init_session_factory", "test_connection"}
    THEN "smorest_import"
    ELSE IF step = "api" THEN "fallback"
    ELSE IF step = "fallback" THEN "fallback"
    ELSE "returned"

\* logging.warning / logging.exception in the except clause
Logged(step) == app.log \cup {step}

\* app = Flask(__name__); the four routes of the factory; CORS
CreateApp ==
    /\ app.pc = "none"
    /\ app' = [app EXCEPT !.pc = "db_import",
                          !.rules = <<Rule("/", "root_health", Healthy),
                                      Rule("/healthz", "healthz", Healthy),
                                      Rule("/openapi.json", "openapi_json", "spec"),
                                      Rule("/docs", "docs_fallback", "html")>>]
    /\ UNCHANGED <<appResp, coreVars, notAppVars>>

\* from .db import init_engine, init_session_factory, test_connection
DbImport(raises) ==
    /\ app.pc = "db_import"
    /\ app' = IF raises
              THEN [app EXCEPT !.pc = CaughtAt("db_import"), !.log = Logged("db_import")]
              ELSE [app EXCEPT !.pc = "init_engine"]
    /\ UNCHANGED <<appResp, coreVars, notAppVars>>

\* engine = init_engine(...): an engine, None, or an exception (of int() too)
InitEngine(outcome) ==
    /\ app.pc = "init_engine"
    /\ app' = IF outcome = "raise"
              THEN [app EXCEPT !.pc = CaughtAt("init_engine"), !.log = Logged("init_engine")]
              ELSE IF outcome = "none"
              THEN [app EXCEPT !.pc = "smorest_import", !.log = Logged("no_engine")]
              ELSE [app EXCEPT !.pc = "init_session_factory"]
    /\ UNCHANGED <<appResp, coreVars, notAppVars>>

\* init_session_factory()
InitSessionFactory(raises) ==
    /\ app.pc = "init_session_factory"
    /\ app' = IF raises
              THEN [app EXCEPT !.pc = CaughtAt("init_session_factory"),
                               !.log = Logged("init_session_factory")]
              ELSE [app EXCEPT !.pc = "test_connection"]
    /\ UNCHANGED <<appResp, coreVars, notAppVars>>

\* result = test_connection(); logging.log(level, ...)
TestConnection(outcome) ==
    /\ app.pc = "test_connection"
    /\ app' = IF outcome = "raise"
              THEN [app EXCEPT !.pc = CaughtAt("test_connection"),
                               !.log = Logged("test_connection")]
              ELSE [app EXCEPT !.pc = "smorest_import", !.log = Logged(outcome)]
    /\ UNCHANGED <<appResp, coreVars, notAppVars>>

\* app.api = None; the imports of flask_smorest and the three blueprints;
\* only_smorest
SmorestImport(outcome) ==
    /\ app.pc = "smorest_import"
    /\ app' = IF outcome = "raise"
              THEN [app EXCEPT !.pc = CaughtAt("smorest_import"),
                               !.log = Logged("smorest_import")]
              ELSE IF outcome = "only_smorest"
              THEN [app EXCEPT !.pc = "api"]
              ELSE [app EXCEPT !.pc = "fallback", !.log = Logged("non_smorest")]
    /\ UNCHANGED <<appResp, coreVars, notAppVars>>

\* the rules of the first n blueprints
RECURSIVE RulesOf(_)
RulesOf(n) == IF n = 0 THEN <<>> ELSE RulesOf(n - 1) \o BlueprintRules(Blueprints[n])

\* api = Api(app); api.register_blueprint(bp) for each; app.api = api:
\* n blueprints are registered before an exception, or all of them
ApiRegister(n) ==
    /\ app.pc = "api"
    /\ app' = IF n < Len(Blueprints)
              THEN [app EXCEPT !.pc = CaughtAt("api"), !.log = Logged("api"),
                               !.rules = @ \o RulesOf(n),
                               !.blueprints = {Blueprints[k] : k \in 1..n}]
              ELSE [app EXCEPT !.pc = "returned", !.api = TRUE,
                               !.rules = @ \o RulesOf(n),
                               !.blueprints = {Blueprints[k] : k \in 1..n}]
    /\ UNCHANGED <<appResp, coreVars, notAppVars>>

\* app.register_blueprint(bp) in the fallback loops: a name that is already
\* registered raises, any other registration may
FallbackRegister(raises) ==
    LET bp == Blueprints[app.i] IN
    /\ app.pc = "fallback"
    /\ bp \in app.blueprints => raises
    /\ app' = [app EXCEPT
                 !.pc = IF app.i = Len(Blueprints) THEN "returned"
                        ELSE IF raises THEN CaughtAt("fallback") ELSE "fallback",
                 !.i = IF app.i = Len(Blueprints) THEN @ ELSE @ + 1,
                 !.log = IF raises THEN Logged(bp) ELSE @,
                 !.rules = IF raises THEN @ ELSE @ \o BlueprintRules(bp),
                 !.blueprints = IF raises THEN @ ELSE @ \cup {bp}]
    /\ UNCHANGED <<appResp, coreVars, notAppVars>>

\* the rules of the returned app that match a path
Matching(path) == {k \in 1..Len(app.rules) : app.rules[k].path = path}

\* GET path on the returned app: a rule that matches answers, or 404
Get(path) ==
    /\ app.pc = "returned"
    /\ \/ \E k \in Matching(path) :
             appResp' = [fn |-> "get", path |-> path, endpoint |-> app.rules[k].endpoint,
                         answer |-> app.rules[k].answer]
       \/ /\ Matching(path) = {}
          /\ appResp' = [fn |-> "get", path |-> path, endpoint |-> "none",
                         answer |-> [status |-> 404, body |-> "Not Found"]]
    /\ UNCHANGED <<app, coreVars, notAppVars>>

InitApp ==
    /\ InitBroker
    /\ AuthAtStart
    /\ ExtAtStart

NextApp ==
    \/ CreateApp
    \/ \E raises \in BOOLEAN : DbImport(raises)
    \/ \E outcome \in {"engine", "none", "raise"} : InitEngine(outcome)
    \/ \E raises \in BOOLEAN : InitSessionFactory(raises)
    \/ \E outcome \in {"db_ok", "db_down", "raise"} : TestConnection(outcome)
    \/ \E outcome \in {"only_smorest", "other", "raise"} : SmorestImport(outcome)
    \/ \E n \in 0..Len(Blueprints) : ApiRegister(n)
    \/ \E raises \in BOOLEAN : FallbackRegister(raises)
    \/ \E path \in {"/", "/healthz", "/auth/me"} : Get(path)

SpecApp == InitApp /\ [][NextApp]_vars

\* ===================================================== app/routes/classes.py
notClsVars == <<fbVars, appVars, poolVars, timeVars, apiVars, upsertVars>>

MaxClassRows == 1
MaxSessionRows == 1
\* the class ids requests name: those of the rows there can be, and one more
ClassIds == 1..(MaxClassRows + 1)

\* ---- exceptions: the class raised, and the classes it is an instance of
NoException == [raised |-> "none", code |-> 0, message |-> ""]
\* a statement or commit of the session fails
DbError == [raised |-> "SQLAlchemyError", code |-> 0, message |-> ""]
\* flask_smorest.abort(code, message=...): raises werkzeug's HTTPException
Abort(code, message) == [raised |-> "HTTPException", code |-> code, message |-> message]
IsInstance(exc, cls) ==
    /\ exc.raised # "none"
    /\ cls \in {exc.raised, "Exception"}

\* get_db_session(): a session, or None when the database is not configured
GetDbSession(db) == IF db = "configured" THEN Some("session") ELSE None

\* _ensure_db(): the session, or abort(503)
EnsureDb(db) ==
    IF GetDbSession(db) = None
    THEN [session |-> None, exc |-> Abort(503, "Database is not configured")]
    ELSE [session |-> GetDbSession(db), exc |-> NoException]

\* SELECT ... FROM classes WHERE id = :cid
ClassRows(tables, cid) ==
    {i \in DOMAIN tables.classes : tables.classes[i].id = cid}
ClassRow(tables, cid) == tables.classes[CHOOSE i \in ClassRows(tables, cid) : TRUE]

\* INSERT INTO classes (...) VALUES (...) RETURNING id, ...
InsertClass(tables, email) ==
    [tables EXCEPT !.classes =
        Append(@, [id |-> Len(@) + 1, teacher_email |-> email])]

\* INSERT INTO enrollments ... ON CONFLICT (class_id, student_email) DO NOTHING
InsertEnrollment(tables, cid, email) ==
    LET row == [class_id |-> cid, student_email |-> email] IN
    IF BagIn(row, tables.enrollments)
    THEN tables
    ELSE [tables EXCEPT !.enrollments = @ (+) SetToBag({row})]

\* INSERT INTO sessions (class_id, start_time, end_time, notes) ... RETURNING
InsertSession(tables, cid, start_time, end_time) ==
    [tables EXCEPT !.sessions =
        Append(@, [id |-> Len(@) + 1, class_id |-> cid,
                   start_time |-> start_time, end_time |-> end_time])]

\* ---- the try blocks: the exception that leaves them, the tables as the
\* session holds them, and the status returned when none was raised
TryResult(exc, tables, status) == [exc |-> exc, tables |-> tables, status |-> status]

\* ClassesListResource.post, lines 183-208
CreateClassTry(email, tables, fault) ==
    IF fault THEN TryResult(DbError, tables, 0)
    ELSE TryResult(NoException, InsertClass(tables, email), 201)

\* ClassEnrollmentResource.post, lines 231-280
EnrollTry(class_id, student_email, tables, fault) ==
    IF fault THEN TryResult(DbError, tables, 0)
    ELSE IF ClassRows(tables, class_id) = {}
    THEN TryResult(Abort(404, "Class not found"), tables, 0)
    ELSE TryResult(NoException, InsertEnrollment(tables, class_id, student_email), 200)

\* ClassSessionsResource.post, lines 305-361
CreateSessionTry(payload, class_id, role, email, tables, fault) ==
    IF fault THEN TryResult(DbError, tables, 0)
    ELSE IF ClassRows(tables, class_id) = {}
    THEN TryResult(Abort(404, "Class not found"), tables, 0)
    ELSE IF role = Some("teacher") /\ ClassRow(tables, class_id).teacher_email # email
    THEN TryResult(Abort(403, "Forbidden: not your class"), tables, 0)
    ELSE IF payload.end_time <= payload.start_time
    THEN TryResult(Abort(400, "end_time must be after start_time"), tables, 0)
    ELSE TryResult(NoException,
                   InsertSession(tables, class_id, payload.start_time, payload.end_time),
                   201)

\* ---- the except clauses, in the order written: what the handler answers and
\* the tables after session.rollback()
Handled(status, message, tables) ==
    [status |-> status, message |-> message, tables |-> tables]

\* except Exception: rollback, abort(500)
ExceptException(try, before) ==
    IF IsInstance(try.exc, "Exception")
    THEN Handled(500, "Internal server error", before)
    ELSE Handled(try.status, "", try.tables)

\* except ValidationError: rollback, abort(400); then except Exception
ExceptValidationError(try, before) ==
    IF IsInstance(try.exc, "ValidationError")
    THEN Handled(400, "ValidationError", before)
    ELSE ExceptException(try, before)

\* ---- requests
ClsAnswer(handler, header, class_id, payload, j, db, fault, tried, status, message) ==
    [handler |-> handler, header |-> header, class_id |-> class_id, payload |-> payload,
     before |-> orm, g_email |-> j.g_email, g_role |-> j.g_role, db |-> db,
     fault |-> fault, tried |-> tried, status |-> status, message |-> message]

\* the callers: two teachers, an admin, two students, and no header
Caller(sub, role) == <<Word("Bearer"), Word(" "), Signed(Some(sub), Some(role), None, None)>>
ClsHeaders ==
    {Caller(<<"a">>, "teacher"), Caller(<<"b">>, "teacher"), Caller(<<"c">>, "admin"),
     Caller(<<"a">>, "student"), Caller(<<"b">>, "student"), <<>>}

\* what @blp.arguments hands on: the deserialized body, or 422
NoPayload == [valid |-> TRUE, start_time |-> 0, end_time |-> 0]
BadPayload == [valid |-> FALSE, start_time |-> 0, end_time |-> 0]
SessionPayloads ==
    {[valid |-> TRUE, start_time |-> 1, end_time |-> 2],
     [valid |-> TRUE, start_time |-> 2, end_time |-> 2],
     [valid |-> TRUE, start_time |-> 2, end_time |-> 1],
     BadPayload}
DbStates == {"configured", "none"}

\* @blp.arguments, @roles_required and _ensure_db: whether the try block of
\* the handler is reached, as whom, and the response when it is not
Before(roles, h, payload, db) ==
    LET j == RolesRequired(roles, h, env, now)
        e == EnsureDb(db)
        none == [passed |-> FALSE, status |-> 0, g_email |-> None, g_role |-> None] IN
    IF ~payload.valid
    THEN [reached |-> FALSE, j |-> none, status |-> 422, message |-> "Unprocessable Entity"]
    ELSE IF ~j.passed
    THEN [reached |-> FALSE, j |-> j, status |-> j.status, message |-> ""]
    ELSE IF e.exc # NoException
    THEN [reached |-> FALSE, j |-> j, status |-> e.exc.code, message |-> e.exc.message]
    ELSE [reached |-> TRUE, j |-> j, status |-> 0, message |-> ""]

\* the response and the tables: those of `after` when the try block was reached
Respond(handler, h, class_id, payload, db, fault, b, after) ==
    /\ clsResp' = IF b.reached
                  THEN ClsAnswer(handler, h, class_id, payload, b.j, db, fault, TRUE,
                                 after.status, after.message)
                  ELSE ClsAnswer(handler, h, class_id, payload, b.j, db, fault, FALSE,
                                 b.status, b.message)
    /\ orm' = IF b.reached THEN after.tables ELSE orm

\* POST /classes
ClassesPost(h, valid, db, fault) ==
    LET payload == IF valid THEN NoPayload ELSE BadPayload
        b == Before({"teacher", "admin"}, h, payload, db)
        after == ExceptException(CreateClassTry(b.j.g_email[1], orm, fault), orm) IN
    /\ Respond("classes_post", h, 0, payload, db, fault, b, after)
    /\ Len(orm'.classes) <= MaxClassRows
    /\ UNCHANGED <<coreVars, notClsVars>>

\* POST /classes/<class_id>/enroll
EnrollPost(h, class_id, db, fault) ==
    LET b == Before({"student"}, h, NoPayload, db)
        after == ExceptException(EnrollTry(class_id, b.j.g_email[1], orm, fault), orm) IN
    /\ Respond("enroll_post", h, class_id, NoPayload, db, fault, b, after)
    /\ UNCHANGED <<coreVars, notClsVars>>

\* POST /classes/<class_id>/sessions
SessionsPost(h, class_id, payload, db, fault) ==
    LET b == Before({"teacher", "admin"}, h, payload, db)
        after == ExceptValidationError(
                     CreateSessionTry(payload, class_id, b.j.g_role, b.j.g_email[1], orm,
                                      fault), orm) IN
    /\ Respond("sessions_post", h, class_id, payload, db, fault, b, after)
    /\ Len(orm'.sessions) <= MaxSessionRows
    /\ UNCHANGED <<coreVars, notClsVars>>

InitClasses ==
    /\ InitBroker
    /\ AuthAtStart
    /\ ExtAtStart

NextClasses ==
    \/ \E h \in ClsHeaders, valid \in BOOLEAN, db \in DbStates, fault \in BOOLEAN :
          ClassesPost(h, valid, db, fault)
    \/ \E h \in ClsHeaders, class_id \in ClassIds, db \in DbStates, fault \in BOOLEAN :
          EnrollPost(h, class_id, db, fault)
    \/ \E h \in ClsHeaders, class_id \in ClassIds, payload \in SessionPayloads,
          db \in DbStates, fault \in BOOLEAN :
          SessionsPost(h, class_id, payload, db, fault)

SpecClasses == InitClasses /\ [][NextClasses]_vars

\* ==================================== SingletonConnectionPool (app/db.py)
notPoolVars == <<fbVars, appVars, clsVars, timeVars, apiVars, upsertVars>>

\* DB_POOL_MAXCONN, and how often the constructor is let fail
MaxConn == 1
MaxFailures == 2
Conns == 1..MaxConn
PoolFunctions == {"execute_query", "execute_many", "ensure_schema"}

\* mutant: the lock does not keep anyone out
InstanceLockFreeAlways(holder) == TRUE

\* with cls._instance_lock: enterable when no thread holds it
InstanceLockFree(holder) == holder = 0

\* mutant: the connection is put back only when the body did not raise
PutsBackUnlessRaised(raised) == raised = "no"

\* try: yield conn / finally: putconn runs however the body ended
PutsBack(raised) == TRUE

\* pool.SimpleConnectionPool(minconn, maxconn, dsn): nothing checked out
NewPool == [used |-> {}]

\* execute_query / execute_many / ensure_schema is called: with get_db_connection()
Call(t, fn) ==
    /\ tpc[t] = "idle"
    /\ tpc' = [tpc EXCEPT ![t] = "acquire"]
    /\ tconn' = [tconn EXCEPT ![t] = [NoLocals EXCEPT !.fn = fn]]
    /\ UNCHANGED <<instance, instance_lock, pools, coreVars, notPoolVars>>

\* instance(): with cls._instance_lock
InstanceAcquire(t) ==
    /\ tpc[t] = "acquire"
    /\ InstanceLockFree(instance_lock)
    /\ instance_lock' = t
    /\ tpc' = [tpc EXCEPT ![t] = "check"]
    /\ UNCHANGED <<instance, tconn, pools, coreVars, notPoolVars>>

\* instance(): if cls._instance is None
InstanceCheck(t) ==
    /\ tpc[t] = "check"
    /\ tconn' = [tconn EXCEPT ![t].found = instance]
    /\ tpc' = [tpc EXCEPT ![t] = IF instance = 0 THEN "construct" ELSE "return"]
    /\ UNCHANGED <<instance, instance_lock, pools, coreVars, notPoolVars>>

\* instance(): cls._instance = cls(); __init__ raises (RuntimeError for a
\* missing configuration, ValueError of int(), an error of the pool) or returns
Construct(t, raises) ==
    /\ tpc[t] = "construct"
    /\ IF raises
       THEN /\ pools.failed < MaxFailures
            /\ pools' = [pools EXCEPT !.failed = @ + 1]
            /\ tconn' = [tconn EXCEPT ![t].ctor = "raised"]
            /\ tpc' = [tpc EXCEPT ![t] = "unwind"]
            /\ UNCHANGED instance
       ELSE /\ pools' = [pools EXCEPT !.objects = Append(@, NewPool)]
            /\ instance' = Len(pools.objects) + 1
            /\ tconn' = [tconn EXCEPT ![t].ctor = "returned"]
            /\ tpc' = [tpc EXCEPT ![t] = "return"]
    /\ UNCHANGED <<instance_lock, coreVars, notPoolVars>>

\* instance(): return cls._instance, leaving the with block
InstanceReturn(t) ==
    /\ tpc[t] = "return"
    /\ instance_lock' = 0
    /\ tconn' = [tconn EXCEPT ![t].pool_instance = instance,
                              ![t].left = [instance |-> instance, lock |-> 0]]
    /\ tpc' = [tpc EXCEPT ![t] = "getconn"]
    /\ UNCHANGED <<instance, pools, coreVars, notPoolVars>>

\* instance(): the constructor's exception leaves the with block and the call
InstanceRaise(t) ==
    /\ tpc[t] = "unwind"
    /\ instance_lock' = 0
    /\ tconn' = [tconn EXCEPT ![t].raised = "constructor",
                              ![t].left = [instance |-> instance, lock |-> 0]]
    /\ tpc' = [tpc EXCEPT ![t] = "idle"]
    /\ UNCHANGED <<instance, pools, coreVars, notPoolVars>>

\* get_db_connection(): conn = pool_instance.getconn(), before the try; it
\* raises when the pool is exhausted or no connection can be made
Getconn(t, fails) ==
    LET p == tconn[t].pool_instance
        free == Conns \ pools.objects[p].used
        conn == CHOOSE c \in free : \A d \in free : c <= d IN
    /\ tpc[t] = "getconn"
    /\ IF fails \/ free = {}
       THEN /\ tconn' = [tconn EXCEPT ![t].raised = "getconn"]
            /\ tpc' = [tpc EXCEPT ![t] = "idle"]
            /\ UNCHANGED pools
       ELSE /\ pools' = [pools EXCEPT !.objects[p].used = @ \cup {conn}]
            /\ tconn' = [tconn EXCEPT ![t].conn = conn]
            /\ tpc' = [tpc EXCEPT ![t] = "body"]
    /\ UNCHANGED <<instance, instance_lock, coreVars, notPoolVars>>

\* the body of the with block: cursor, execute, fetch, commit; any may raise
Body(t, raises) ==
    /\ tpc[t] = "body"
    /\ tconn' = [tconn EXCEPT ![t].raised = IF raises THEN "body" ELSE "no"]
    /\ tpc' = [tpc EXCEPT ![t] = "finally"]
    /\ UNCHANGED <<instance, instance_lock, pools, coreVars, notPoolVars>>

\* get_db_connection(): finally: pool_instance.putconn(conn)
Finally(t) ==
    LET p == tconn[t].pool_instance
        conn == tconn[t].conn IN
    /\ tpc[t] = "finally"
    /\ IF PutsBack(tconn[t].raised)
       THEN /\ pools' = [pools EXCEPT !.objects[p].used = @ \ {conn}]
            /\ tconn' = [tconn EXCEPT ![t].puts = @ + 1]
       ELSE UNCHANGED <<pools, tconn>>
    /\ tpc' = [tpc EXCEPT ![t] = "idle"]
    /\ UNCHANGED <<instance, instance_lock, coreVars, notPoolVars>>

InitPool ==
    /\ InitBroker
    /\ AuthAtStart
    /\ ExtAtStart

NextPool ==
    \E t \in PoolThreads :
        \/ \E fn \in PoolFunctions : Call(t, fn)
        \/ InstanceAcquire(t)
        \/ InstanceCheck(t)
        \/ \E raises \in BOOLEAN : Construct(t, raises)
        \/ InstanceReturn(t)
        \/ InstanceRaise(t)
        \/ \E fails \in BOOLEAN : Getconn(t, fails)
        \/ \E raises \in BOOLEAN : Body(t, raises)
        \/ Finally(t)

SpecPool == InitPool /\ [][NextPool]_vars

\* ============================================ SseClient.stream(): keep-alive
\* keepalive_interval = 15
KeepaliveInterval == 15

\* the clock moves on by one of these steps, up to MaxClock
MaxClock == 31
ClockSteps == {7, 8}

\* mutant: the keep-alive is due only after more than the interval
DueAfter(t, ping) == t - ping > KeepaliveInterval

\* now - last_ping >= keepalive_interval
Due(t, ping) == t - ping >= KeepaliveInterval

\* remaining = max(0, keepalive_interval - (time.time() - last_ping))
Remaining(t, ping) ==
    IF KeepaliveInterval - (t - ping) > 0 THEN KeepaliveInterval - (t - ping) ELSE 0

\* history: the keep-alive before now, or the start of the stream
PreviousPing(p) ==
    IF p.keepalives = <<>> THEN p.start[1] ELSE p.keepalives[Len(p.keepalives)]

\* stream() starts: last_ping = time.time()
StreamStartAt(c) ==
    /\ StreamStarts(c)
    /\ last_ping' = [last_ping EXCEPT ![c] = clock]
    /\ pings' = [pings EXCEPT ![c].start = <<clock>>]
    /\ UNCHANGED clock

\* with self._cond: if not self._queue: remaining = ...; self._cond.wait(
\* timeout=remaining if remaining > 0 else 0.1); 0.1 s is no time on this clock
StreamEnterAt(c) ==
    /\ StreamEnters(c)
    /\ pings' = [pings EXCEPT ![c].pending = Len(queue[c]),
                              ![c].waited = (queue[c] = <<>>),
                              ![c].until = clock + Remaining(clock, last_ping[c])]
    /\ UNCHANGED <<clock, last_ping>>

\* wait returns: notified by a send, or its timeout is over
StreamWakeAt(c) ==
    /\ queue[c] # <<>> \/ clock >= pings[c].until
    /\ StreamWakes(c)
    /\ UNCHANGED timeVars

\* items = list(self._queue); now = time.time(); if now - last_ping >=
\* keepalive_interval: yield ": keep-alive\n\n"; last_ping = now
StreamDrainAt(c) ==
    LET due == Due(clock, last_ping[c]) IN
    /\ StreamDrains(c, due)
    /\ last_ping' = [last_ping EXCEPT ![c] = IF due THEN clock ELSE @]
    /\ pings' = [pings EXCEPT
                   ![c].keepalives = IF due THEN Append(@, clock) ELSE @,
                   ![c].last = [at |-> clock, prev |-> PreviousPing(pings[c]),
                                ping |-> due, before |-> Len(yielded[c]),
                                drained |-> Len(queue[c])]]
    /\ UNCHANGED clock

\* time.time() moves on
Advance(d) ==
    /\ clock + d <= MaxClock
    /\ clock' = clock + d
    /\ UNCHANGED <<last_ping, pings, coreVars, untimedVars>>

\* one stream and the POST /attendance requests that publish to it
NextKeepAlive ==
    \/ SseGet(1) \/ Register(1)
    \/ StreamStartAt(1) \/ StreamEnterAt(1) \/ StreamWakeAt(1) \/ StreamDrainAt(1)
    \/ StreamYield(1) \/ StreamResume(1)
    \/ \E r \in Requests :
          \/ AttendancePost(r) \/ MarkAttendancePublish(r)
          \/ PublishAcquire(r) \/ PublishSendAcquire(r) \/ PublishSendAppend(r)
          \/ PublishRelease(r)
    \/ \E d \in ClockSteps : Advance(d)

SpecKeepAlive == Init /\ [][NextKeepAlive]_vars

\* ================================== SseBroker.register / unregister, called
\* directly, one call at a time
MaxIds == 4

\* history: the ids register has returned so far, in order
Given == IF apiResp.fn = "none" THEN <<>> ELSE apiResp.given

notApiVars ==
    <<lock, clientVars, sseVars, reqVars, dbVars, histVars, authVars, fbVars, appVars,
      clsVars, poolVars, timeVars, upsertVars>>

\* register(client): with self._lock: cid = self._next_id; self._next_id += 1;
\* self._clients.append((cid, client)); return cid
BrokerRegister(c) ==
    /\ next_id <= MaxIds
    /\ LockFree
    /\ next_id' = next_id + 1
    /\ clients' = Append(clients, <<next_id, c>>)
    /\ apiResp' = [fn |-> "register", arg |-> c, before |-> clients, returned |-> next_id,
                   given |-> Append(Given, next_id)]
    /\ UNCHANGED notApiVars

\* unregister(client_id): with self._lock: self._clients = [...]
BrokerUnregister(id) ==
    /\ LockFree
    /\ clients' = FilterOut(clients, id)
    /\ apiResp' = [fn |-> "unregister", arg |-> id, before |-> clients, returned |-> 0,
                   given |-> Given]
    /\ UNCHANGED <<next_id, notApiVars>>

NextBrokerApi ==
    \/ \E c \in Clients : BrokerRegister(c)
    \/ \E id \in 0..(MaxIds + 1) : BrokerUnregister(id)

SpecBrokerApi == Init /\ [][NextBrokerApi]_vars

\* =============================== SseBroker.publish to two registered clients
\* Every client has registered, in order, and no response was iterated yet;
\* the requests then publish.
AllRegistered ==
    /\ clients = [c \in Clients |-> <<c, c>>]
    /\ lock = NoThread
    /\ next_id = MaxClients + 1
    /\ queue = EmptyQueues
    /\ cond = [c \in Clients |-> NoThread]
    /\ cpc = [c \in Clients |-> "gen_new"]
    /\ client_id = [c \in Clients |-> c]
    /\ items = EmptyQueues
    /\ newlist = EmptyQueues
    /\ rpc = [r \in Requests |-> "idle"]
    /\ rop = [r \in Requests |-> NoOp]
    /\ rows = [r \in Requests |-> <<>>]
    /\ pubEvent = [r \in Requests |-> "none"]
    /\ pubData = [r \in Requests |-> NoData]
    /\ snap = [r \in Requests |-> <<>>]
    /\ result = [r \in Requests |-> [status |-> 0, body |-> NoData]]
    /\ classes = {}
    /\ class_members = {}
    /\ attendance = {}
    /\ nextRowId = [classes |-> 1, attendance |-> 1]
    /\ sent = EmptyQueues
    /\ sentPid = EmptyQueues
    /\ yielded = EmptyQueues
    /\ pubBase = [r \in Requests |-> EmptyQueues]
    /\ pubRegd = [r \in Requests |-> {}]
    /\ regStarted = [c \in Clients |-> {}]
    /\ regAcquired = [c \in Clients |-> {}]

InitPublish == AllRegistered /\ AuthAtStart /\ ExtAtStart

NextPublish ==
    \E r \in Requests :
        \/ AttendancePost(r) \/ MarkAttendancePublish(r)
        \/ PublishAcquire(r) \/ PublishSendAcquire(r) \/ PublishSendAppend(r)
        \/ PublishRelease(r)

SpecPublish == InitPublish /\ [][NextPublish]_vars

\* ====================================== the broker under fair scheduling
\* The streams and the POST /attendance requests that publish to them. A
\* thread that can take its next step takes it: the steps of register,
\* unregister, publish, send and stream, and the server asking a response
\* for its next chunk. A thread blocked on a lock gets it when the lock is
\* free again and again (a stream takes and releases its condition lock on
\* every round of its loop, and is out of it while it waits). Requests
\* arriving and responses being closed are up to the callers.
\* the requests that publish here
Publishers == {1}

ThreadStep ==
    \/ \E c \in Clients :
          \/ Register(c)
          \/ StreamStart(c) \/ StreamEnter(c) \/ StreamWake(c) \/ StreamDrain(c)
          \/ StreamYield(c) \/ StreamResume(c)
          \/ UnregisterAcquire(c) \/ UnregisterFilter(c) \/ UnregisterWrite(c)
    \/ \E r \in Publishers :
          \/ MarkAttendancePublish(r)
          \/ PublishAcquire(r) \/ PublishSendAcquire(r) \/ PublishSendAppend(r)
          \/ PublishRelease(r)

NextProgress ==
    \/ \E c \in Clients : SseGet(c) \/ CloseUnstarted(c) \/ StreamClose(c)
    \/ \E r \in Publishers : AttendancePost(r)
    \/ ThreadStep

Fairness ==
    /\ \A c \in Clients :
          /\ WF_vars(Register(c))
          /\ WF_vars(StreamStart(c)) /\ SF_vars(StreamEnter(c)) /\ SF_vars(StreamWake(c))
          /\ WF_vars(StreamDrain(c)) /\ WF_vars(StreamYield(c)) /\ WF_vars(StreamResume(c))
          /\ SF_vars(UnregisterAcquire(c)) /\ WF_vars(UnregisterFilter(c))
          /\ WF_vars(UnregisterWrite(c))
    /\ \A r \in Publishers :
          /\ WF_vars(MarkAttendancePublish(r))
          /\ SF_vars(PublishAcquire(r)) /\ SF_vars(PublishSendAcquire(r))
          /\ WF_vars(PublishSendAppend(r)) /\ WF_vars(PublishRelease(r))

SpecProgress == Init /\ [][NextProgress]_vars /\ Fairness

\* ============================ app/auth.py: _issue_token and _verify_token
\* called directly: a token is issued, the clock moves on, and the token, or
\* the same payload signed with another secret, is verified
MaxTokenTime == 3
TokenSubs == {<<"a">>, <<"b">>}
NoVerdict == [ok |-> FALSE, payload |-> None, err |-> ""]

\* the token the last call issued or verified
HeldToken == IF resp.handler \in {"issue_token", "verify_token"} THEN resp.token ELSE None

notTokenVars ==
    <<users, env, brokerVars, clientVars, sseVars, reqVars, dbVars, histVars, extVars>>

\* _issue_token(sub, role)
IssueCall(sub, role) ==
    LET issued == IssueToken(sub, role, env, now) IN
    /\ resp' = [handler |-> "issue_token", at |-> now, token |-> issued.token,
                forged |-> FALSE, raised |-> issued.raised, verdict |-> NoVerdict]
    /\ UNCHANGED <<now, notTokenVars>>

\* _verify_token(token)
VerifyCall(forged) ==
    /\ HeldToken # None
    /\ LET tok == IF forged THEN Encode(HeldToken[1].payload, "k2") ELSE HeldToken[1] IN
       resp' = [handler |-> "verify_token", at |-> now, token |-> HeldToken,
                forged |-> forged, raised |-> "no", verdict |-> VerifyToken(tok, env, now)]
    /\ UNCHANGED <<now, notTokenVars>>

\* datetime.datetime.utcnow() moves on
TokenTick ==
    /\ now < MaxTokenTime
    /\ now' = now + 1
    /\ UNCHANGED <<resp, notTokenVars>>

NextToken ==
    \/ \E sub \in TokenSubs, role \in ValidRoles : IssueCall(sub, role)
    \/ \E forged \in BOOLEAN : VerifyCall(forged)
    \/ TokenTick

SpecToken == InitAuth /\ [][NextToken]_vars

\* ============================================ app/models.py: upsert_user
\* callers (requests to POST /auth/login) run upsert_user side by side; each
\* execute_query is a transaction of its own
MaxCalls == 2
UserNames == {"n1", "n2"}
UserRoles == {"teacher", "student"}

notUpsertVars == <<coreVars, fbVars, appVars, clsVars, poolVars, timeVars, apiVars>>

\* the rows WHERE email = %s, in table order
RECURSIVE WhereEmail(_, _)
WhereEmail(found, email) ==
    IF found = <<>> THEN <<>>
    ELSE IF Head(found).email = email
    THEN <<Head(found)>> \o WhereEmail(Tail(found), email)
    ELSE WhereEmail(Tail(found), email)

\* INSERT INTO users (email, name, role) VALUES (...) ON CONFLICT (email) DO
\* UPDATE SET name = EXCLUDED.name, role = EXCLUDED.role; id SERIAL takes the
\* next value of its sequence for the proposed row, conflict or not
InsertOrUpdate(t, email, name, role) ==
    IF WhereEmail(t.rows, email) = <<>>
    THEN [rows |-> Append(t.rows, [id |-> t.nextId, email |-> email, name |-> name,
                                   role |-> role]),
          nextId |-> t.nextId + 1]
    ELSE [rows |-> [i \in DOMAIN t.rows |->
                       IF t.rows[i].email = email
                       THEN [t.rows[i] EXCEPT !.name = name, !.role = role]
                       ELSE t.rows[i]],
          nextId |-> t.nextId + 1]

\* upsert_user(email, name, role) is called
UpsertCall(u, email, name, role) ==
    /\ upc[u] = "idle"
    /\ uloc[u].calls < MaxCalls
    /\ upc' = [upc EXCEPT ![u] = "insert"]
    /\ uloc' = [uloc EXCEPT ![u] = [email |-> email, name |-> name, role |-> role,
                                    raised |-> FALSE, returned |-> <<>>,
                                    calls |-> uloc[u].calls + 1]]
    /\ UNCHANGED <<utab, uhist, notUpsertVars>>

\* execute_query(INSERT ... ON CONFLICT ..., fetch="none"): committed, or the
\* database raises and upsert_user is left
UpsertInsert(u, fails) ==
    /\ upc[u] = "insert"
    /\ IF fails
       THEN /\ upc' = [upc EXCEPT ![u] = "idle"]
            /\ uloc' = [uloc EXCEPT ![u].raised = TRUE]
            /\ UNCHANGED <<utab, uhist>>
       ELSE LET after == InsertOrUpdate(utab, uloc[u].email, uloc[u].name, uloc[u].role)
            IN  /\ utab' = after
                /\ uhist' = [uhist EXCEPT ![uloc[u].email] =
                                Append(@, [id |-> WhereEmail(after.rows, uloc[u].email)[1].id,
                                           name |-> uloc[u].name, role |-> uloc[u].role])]
                /\ upc' = [upc EXCEPT ![u] = "select"]
                /\ UNCHANGED uloc
    /\ UNCHANGED notUpsertVars

\* rows, cols = execute_query("SELECT id, email, name, role FROM users WHERE
\* email=%s"); return dict(zip(cols, rows[0])) if rows else {}
UpsertSelect(u, fails) ==
    /\ upc[u] = "select"
    /\ upc' = [upc EXCEPT ![u] = "idle"]
    /\ uloc' = IF fails
               THEN [uloc EXCEPT ![u].raised = TRUE]
               ELSE [uloc EXCEPT ![u].returned =
                        IF WhereEmail(utab.rows, uloc[u].email) = <<>> THEN <<>>
                        ELSE <<WhereEmail(utab.rows, uloc[u].email)[1]>>]
    /\ UNCHANGED <<utab, uhist, notUpsertVars>>

NextUpsert ==
    \/ \E u \in Callers, email \in UserEmails, name \in UserNames, role \in UserRoles :
          UpsertCall(u, email, name, role)
    \/ \E u \in Callers, fails \in BOOLEAN : UpsertInsert(u, fails)
    \/ \E u \in Callers, fails \in BOOLEAN : UpsertSelect(u, fails)

SpecUpsert == Init /\ [][NextUpsert]_vars

\* ================================================================== claims

IsPrefix(a, b) == Len(a) <= Len(b) /\ SubSeq(b, 1, Len(a)) = a
IsSuffix(a, b) == Len(a) <= Len(b) /\ SubSeq(b, Len(b) - Len(a) + 1, Len(b)) = a
PayloadEvent(p) == p[2]
PayloadData(p) == p[4]

\* a publish has finished its loop and is about to leave `with self._lock`
Returning(r) == rpc[r] = "pub_iter" /\ snap[r] = <<>>

\* C1: when publish(event, data) returns, every client that was in the list
\* when publish acquired the broker lock has had exactly one payload for that
\* event appended, and no other client has had anything appended; what a
\* queue holds is the tail of what was appended to it.
C1_FanOut ==
    /\ \A r \in Requests :
          Returning(r) =>
             \A c \in Clients :
                sent[c] = IF c \in pubRegd[r]
                          THEN Append(pubBase[r][c], Payload(pubEvent[r], pubData[r]))
                          ELSE pubBase[r][c]
    /\ \A c \in Clients : IsSuffix(queue[c], sent[c])

\* C1 witness: a publish returns having delivered to a listed client while
\* another client, which received an earlier event, is unregistered.
C1_Witness ==
    \E r \in Requests :
       /\ Returning(r)
       /\ pubRegd[r] # {}
       /\ \E c \in Clients \ pubRegd[r] : cpc[c] = "closed" /\ sent[c] # <<>>

\* C2: for every client, what stream() has yielded is at every moment a
\* prefix of what send() appended, and every appended payload is yielded,
\* still to be yielded, or still queued, in the order of the appends.
C2_InsertionOrder ==
    \A c \in Clients :
       /\ IsPrefix(yielded[c], sent[c])
       /\ yielded[c] \o items[c] \o queue[c] = sent[c]

\* C2 witness: a client was sent a second payload while the first was
\* drained and not yet yielded, and has then been yielded both.
C2_Witness ==
    \E c \in Clients :
       /\ Len(yielded[c]) = 2
       /\ yielded[c][1] # yielded[c][2]
       /\ cpc[c] = "s_susp"

\* C3 (as stated): a client's queue is empty until it is registered, and a
\* client receives no event of a publish that had started (had been called)
\* before the client called register.
C3_NoReplayOfStarted ==
    \A c \in Clients :
       /\ cpc[c] \in {"new", "reg_locked"} => queue[c] = <<>> /\ sent[c] = <<>>
       /\ \A i \in 1..Len(sentPid[c]) : sentPid[c][i] \notin regStarted[c]

\* C3 (amended): a client's queue is empty until it is registered, and a
\* client receives no event of a publish that had acquired the broker lock
\* (so also none that had returned) before its register returned.
C3_NoReplay ==
    \A c \in Clients :
       /\ cpc[c] \in {"new", "reg_locked"} => queue[c] = <<>> /\ sent[c] = <<>>
       /\ \A i \in 1..Len(sentPid[c]) : sentPid[c][i] \notin regAcquired[c]

\* C3 witness: a client registered after a publish had returned has since
\* received the event of a later publish.
C3_Witness ==
    \E c \in Clients : regAcquired[c] # {} /\ sent[c] # <<>>

\* threads inside `with self._lock`
InBrokerLock ==
    {Cli(c) : c \in {d \in Clients : cpc[d] \in {"reg_locked", "unreg_locked", "unreg_write"}}}
    \cup {Req(r) : r \in {q \in Requests : rpc[q] \in {"pub_iter", "pub_send"}}}

\* clients whose register has returned and whose unregister has not
RegisteredClients ==
    {c \in Clients : cpc[c] \in {"gen_new", "leaked", "s_top", "s_wait", "s_drain", "s_items",
                                 "s_susp", "unreg_call", "unreg_locked", "unreg_write"}}

\* C4: register, unregister and publish exclude one another; the client
\* list holds exactly the clients registered and not yet unregistered, once
\* each, under the id register gave them, in the order of registration; and
\* the list a publish iterates is the list as it is.
C4_GuardedList ==
    /\ Cardinality(InBrokerLock) <= 1
    /\ InBrokerLock = IF lock = NoThread THEN {} ELSE {lock}
    /\ Listed(clients) = RegisteredClients
    /\ Len(clients) = Cardinality(RegisteredClients)
    /\ \A i \in 1..Len(clients) : clients[i][1] = client_id[clients[i][2]]
    /\ \A i, j \in 1..Len(clients) : i < j => clients[i][1] < clients[j][1]
    /\ \A r \in Requests : rpc[r] \in {"pub_iter", "pub_send"} => IsSuffix(snap[r], clients)

\* C4 witness: an unregister holds the lock with its new list computed, the
\* other client is listed, and a publish is waiting for the lock.
C4_Witness ==
    \E c \in Clients, r \in Requests :
       /\ cpc[c] = "unreg_write"
       /\ rpc[r] = "pub_call"
       /\ Len(clients) = 2

\* the event each publishing function names
EventOfFn(fn) ==
    IF fn = "create_class" THEN "class_created"
    ELSE IF fn = "add_student_to_class" THEN "class_member_added"
    ELSE IF fn = "mark_attendance" THEN "attendance_marked"
    ELSE "none"

\* C5: every payload ever appended to a client's queue carries one of the
\* three event names, the one of the function whose publish appended it.
C5_ThreeEvents ==
    \A c \in Clients :
       \A i \in 1..Len(sent[c]) :
          /\ PayloadEvent(sent[c][i]) \in EventNames
          /\ PayloadEvent(sent[c][i]) = EventOfFn(rop[sentPid[c][i]].fn)

\* C5 witness: one queue holds the events of two different functions.
C5_Witness ==
    \E c \in Clients :
       /\ Len(queue[c]) = 2
       /\ PayloadEvent(queue[c][1]) # PayloadEvent(queue[c][2])

\* requests whose insert into attendance was committed
Marked ==
    {r \in Requests : rop[r].fn = "mark_attendance"
                       /\ (rows[r] # <<>> \/ pubEvent[r] = "attendance_marked")}

\* C6: an attendance_marked event is published only with a committed
\* attendance row as its data; a POST /attendance that answered 400, that
\* raised, or whose insert returned no row has published nothing, and the
\* attendance table holds one row per insert that returned its row.
C6_InsertThenBroadcast ==
    /\ \A r \in Requests :
          pubEvent[r] = "attendance_marked" => pubData[r] \in attendance
    /\ \A c \in Clients :
          \A i \in 1..Len(sent[c]) :
             PayloadEvent(sent[c][i]) = "attendance_marked"
                => PayloadData(sent[c][i]) \in attendance
    /\ \A r \in Requests :
          (rpc[r] = "done" /\ rop[r].fn \in {"mark_attendance", "post_attendance"}
             /\ (result[r].status \in {400, 500} \/ result[r].body = NoData))
             => /\ pubEvent[r] = "none"
                /\ r \notin Marked
                /\ \A c \in Clients : \A i \in 1..Len(sentPid[c]) : sentPid[c][i] # r
    /\ Cardinality(attendance) = Cardinality(Marked)

\* C6 witness: one POST /attendance was answered 400 and the event of
\* another has reached a client.
C6_Witness ==
    /\ \E r \in Requests : rpc[r] = "done" /\ result[r].status = 400
    /\ \E c \in Clients : \E i \in 1..Len(sent[c]) :
          PayloadEvent(sent[c][i]) = "attendance_marked"

\* ---- the spec's words for requests to the JWT-protected routes
\* the header is "Bearer ", then the token, with only spaces around it
Carries(h, i) ==
    /\ Len(h) >= 3 /\ h[1] = Word("Bearer") /\ h[2] = Word(" ")
    /\ i \in 3..Len(h) /\ IsToken(h[i])
    /\ \A k \in 3..Len(h) : k # i => h[k] = Word(" ")

\* the token is a JWT signed with the configured JWT_SECRET, presented at a
\* time t from its nbf on and before its exp
VerifiesAt(tok, t) ==
    /\ tok.form = "jwt" /\ env.secret # "" /\ tok.key = env.secret
    /\ tok.payload.nbf # None => tok.payload.nbf[1] <= t
    /\ tok.payload.exp # None => t < tok.payload.exp[1]

BearerVerifies(h, t) == \E i \in 1..Len(h) : Carries(h, i) /\ VerifiesAt(h[i], t)

\* C7: under jwt_required the wrapped handler is invoked only when the header
\* starts with "Bearer " and its token verifies against JWT_SECRET; every other
\* request is answered 401 without invoking the handler; when the handler is
\* invoked, g.user_email and g.user_role are the token's sub and role claims.
C7_JwtRequired ==
    resp.handler \in {"me", "admin_ping"} =>
       /\ resp.invoked => BearerVerifies(resp.header, resp.at)
       /\ ~BearerVerifies(resp.header, resp.at) => resp.status = 401 /\ ~resp.invoked
       /\ resp.invoked =>
             /\ resp.status = 200
             /\ \E i \in 1..Len(resp.header) :
                   /\ Carries(resp.header, i)
                   /\ resp.g_email = resp.header[i].payload.sub
                   /\ resp.g_role = resp.header[i].payload.role

\* /auth/me answers a token that login issued, one time unit later
C7_Witness ==
    /\ resp.handler = "me" /\ resp.invoked /\ resp.at = 1
    /\ resp.g_email = Some(<<"a">>) /\ resp.g_role = Some("student")
    /\ \E i \in 1..Len(resp.header) :
          Carries(resp.header, i) /\ resp.header[i].payload.exp # None

\* the JWT configuration can be loaded: a secret and an integer TOKEN_EXP_MIN
ConfigLoads == env.secret # "" /\ env.exp \in {"unset", "1"}

\* the request carries a valid JWT
ValidJwt(h, t) == ConfigLoads /\ BearerVerifies(h, t)

\* the role claim of the token the header carries is one of roles
RoleClaimIn(h, roles) ==
    \E i \in 1..Len(h) :
       /\ Carries(h, i)
       /\ h[i].payload.role # None
       /\ h[i].payload.role[1] \in roles

EmptyClaims(h) == \E i \in 1..Len(h) : Carries(h, i) /\ h[i].payload = EmptyPayload

\* C8 as the spec states it: under roles_required("admin") every valid token
\* whose role claim is another role or absent is answered 403.
C8_AnyValidToken403 ==
    resp.handler = "admin_ping" =>
       /\ resp.invoked => ValidJwt(resp.header, resp.at) /\ RoleClaimIn(resp.header, {"admin"})
       /\ ValidJwt(resp.header, resp.at) /\ ~RoleClaimIn(resp.header, {"admin"}) =>
             resp.status = 403 /\ ~resp.invoked
       /\ ~ValidJwt(resp.header, resp.at) => resp.status = 401

\* C8: under roles_required("admin") the handler is invoked only for a valid
\* JWT whose role claim is admin; a valid token with a non-empty payload and
\* another role, or no role claim, is answered 403 without invoking the
\* handler; a missing or invalid token, and a valid token whose payload is
\* empty, is answered 401; a 403 is only ever given to a valid token.
C8_RolesRequired ==
    resp.handler = "admin_ping" =>
       /\ resp.invoked =>
             /\ ValidJwt(resp.header, resp.at)
             /\ RoleClaimIn(resp.header, {"admin"})
             /\ resp.status = 200
       /\ ( /\ ValidJwt(resp.header, resp.at)
            /\ ~EmptyClaims(resp.header)
            /\ ~RoleClaimIn(resp.header, {"admin"}) ) =>
             resp.status = 403 /\ ~resp.invoked
       /\ ValidJwt(resp.header, resp.at) /\ EmptyClaims(resp.header) =>
             resp.status = 401 /\ ~resp.invoked
       /\ ~ValidJwt(resp.header, resp.at) => resp.status = 401 /\ ~resp.invoked
       /\ resp.status = 403 => ValidJwt(resp.header, resp.at)

\* a valid token that names a subject and no role is refused with 403
C8_Witness ==
    /\ resp.handler = "admin_ping" /\ resp.status = 403 /\ ~resp.invoked
    /\ ValidJwt(resp.header, resp.at)
    /\ resp.g_email = Some(<<"a">>) /\ resp.g_role = None

\* ---- the spec's words for signup and login
\* a body that passes for a signup: an object with a non-empty email and
\* password and one of the three roles
ValidSignup(b) ==
    /\ b.kind = "dict" /\ b.keys = {"email", "password", "role"}
    /\ b.email # <<>> /\ b.password # "" /\ b.role \in {"student", "teacher", "admin"}

\* the token is one for this email and role
TokenFor(token, email, role) ==
    /\ token # None
    /\ token[1].payload.sub = Some(email)
    /\ token[1].payload.role = Some(role)

\* C9 as the spec states it: a valid signup for an email that is not stored
\* stores the user under the normalized email with the given role and returns
\* 201 with a token for them; one for a stored email returns 409; no signup
\* changes a record that was stored before it.
C9_SignupUniqueness ==
    resp.handler = "signup" =>
       LET email == Normalize(resp.body.email) IN
       /\ ValidSignup(resp.body) /\ email \notin DOMAIN resp.store =>
             /\ resp.status = 201
             /\ email \in DOMAIN users
             /\ users[email].role = resp.body.role
             /\ TokenFor(resp.token, email, resp.body.role)
       /\ ValidSignup(resp.body) /\ email \in DOMAIN resp.store =>
             resp.status = 409 /\ users = resp.store
       /\ \A e \in DOMAIN resp.store : e \in DOMAIN users /\ users[e] = resp.store[e]

\* a valid signup for a new email is answered 500 and the user is stored
C9_Witness ==
    /\ resp.handler = "signup" /\ ValidSignup(resp.body) /\ resp.status = 500
    /\ Normalize(resp.body.email) \notin DOMAIN resp.store
    /\ Normalize(resp.body.email) \in DOMAIN users

\* the request names an email and a password; the normalized email is stored
\* and the password matches the stored hash
CredentialsMatch(b, store) ==
    /\ b.kind = "dict" /\ {"email", "password"} \subseteq b.keys
    /\ Normalize(b.email) \in DOMAIN store
    /\ CheckPasswordHash(store[Normalize(b.email)].password_hash, b.password)

\* C10 as the spec states it: login returns 200 exactly when the normalized
\* email is stored and the password matches.
C10_LoginIffCredentials ==
    resp.handler = "login" =>
       /\ resp.status = 200 <=> CredentialsMatch(resp.body, resp.store)
       /\ resp.status = 200 =>
             TokenFor(resp.token, Normalize(resp.body.email),
                      resp.store[Normalize(resp.body.email)].role)
       /\ users = resp.store

\* C10: login returns 200 exactly when the request's email is not empty, its
\* trimmed, lower-cased form is stored, the password matches the stored hash
\* and the JWT configuration loads; with matching credentials and a
\* configuration that does not load it returns 500, with an empty email 400;
\* the token's sub is that email and its role the stored one; login leaves the
\* user store as it found it.
C10_Login ==
    resp.handler = "login" =>
       /\ resp.status = 200 <=>
             /\ CredentialsMatch(resp.body, resp.store)
             /\ resp.body.email # <<>>
             /\ ConfigLoads
       /\ ( /\ CredentialsMatch(resp.body, resp.store)
            /\ resp.body.email # <<>>
            /\ ~ConfigLoads ) => resp.status = 500
       /\ resp.body.kind = "dict" /\ resp.body.email = <<>> => resp.status = 400
       /\ resp.status = 200 =>
             TokenFor(resp.token, Normalize(resp.body.email),
                      resp.store[Normalize(resp.body.email)].role)
       /\ users = resp.store

\* a login that names the role admin gets the token of the stored student
C10_Witness ==
    /\ resp.handler = "login" /\ resp.status = 200
    /\ "role" \in resp.body.keys /\ resp.body.role = "admin"
    /\ TokenFor(resp.token, <<"a">>, "student")
    /\ resp.body.email # Normalize(resp.body.email)

\* ---- the spec's words for the Firebase decorator
\* the header is exactly two parts, the i-th item a bearer scheme and the j-th
\* the token, with whitespace between them and nothing but whitespace around
TwoParts(h, i, j) ==
    /\ i \in 1..Len(h) /\ j \in 1..Len(h) /\ i + 1 < j
    /\ ~IsToken(h[i]) /\ h[i].word \in {"Bearer", "bearer", "BEARER"}
    /\ IsToken(h[j])
    /\ \A k \in 1..Len(h) : k \notin {i, j} => h[k] \in {Word(" "), Word("\t")}

BearerHeader(h) == \E i, j \in 1..Len(h) : TwoParts(h, i, j)

\* C11: under firebase_auth_required the handler is invoked only after the
\* bearer token was verified, with g.firebase_claims the decoded claims,
\* g.user_id their uid and g.roles get_user_roles_from_claims(claims); a header
\* that is absent or not two parts with scheme bearer, a token that does not
\* verify and a Firebase app that cannot be initialized are answered 401
\* without invoking the handler.
C11_FirebaseAuthRequired ==
    fbResp.fn = "firebase_auth_required" =>
       /\ fbResp.invoked =>
             /\ fbResp.status = 200
             /\ fbApps # {}
             /\ \E i, j \in 1..Len(fbResp.header) :
                   /\ TwoParts(fbResp.header, i, j)
                   /\ fbResp.header[j].form = "firebase"
                   /\ fbResp.header[j].verdict = "ok"
                   /\ fbResp.g_claims = Some(fbResp.header[j].claims)
                   /\ fbResp.g_user_id =
                         Some(IF fbResp.header[j].claims.uid = Absent THEN Null
                              ELSE fbResp.header[j].claims.uid)
                   /\ fbResp.g_roles = Some(GetUserRolesFromClaims(fbResp.header[j].claims))
       /\ ~BearerHeader(fbResp.header) =>
             fbResp.status = 401 /\ ~fbResp.invoked
       /\ (\E i, j \in 1..Len(fbResp.header) :
              /\ TwoParts(fbResp.header, i, j)
              /\ ~(fbResp.header[j].form = "firebase" /\ fbResp.header[j].verdict = "ok")) =>
             fbResp.status = 401 /\ ~fbResp.invoked
       /\ fbApps = {} => fbResp.status = 401 /\ ~fbResp.invoked

\* a request whose token has no uid and no roles claim initializes the app and
\* reaches the handler with the roles of its flags
C11_Witness ==
    /\ fbResp.fn = "firebase_auth_required" /\ fbResp.invoked
    /\ fbResp.before = {} /\ fbApps # {}
    /\ fbResp.g_user_id = Some(Null)
    /\ fbResp.g_roles = Some(List(<<"admin", "viewer">>))

\* ---- the spec's words for the roles of a token
\* the flag keys whose claim is exactly True, in the fixed order
FlagRoles(claims) ==
    LET Flagged(key) == claims[key] = Bool(TRUE) IN List(SelectSeq(FlagKeys, Flagged))

\* C17 as the spec states it: a roles claim that is present and not None is
\* returned, an empty one as []; without a roles claim the flags decide.
C17_RolesClaimReturned ==
    fbResp.fn = "get_user_roles_from_claims" =>
       /\ fbResp.claims.roles \notin {Absent, Null} =>
             fbResp.result = IF fbResp.claims.roles \in {List(<<>>), Str("")}
                             THEN List(<<>>)
                             ELSE fbResp.claims.roles
       /\ fbResp.claims.roles = Absent => fbResp.result = FlagRoles(fbResp.claims)
       /\ fbResp.result # Null

\* C17: get_user_roles_from_claims returns the roles claim when it is present
\* and truthy, and [] when it is present and falsy (empty, False or 0); when
\* it is absent or None it returns the flag keys whose claim is exactly True,
\* in the order admin, teacher, student, editor, viewer; never None.
C17_Roles ==
    fbResp.fn = "get_user_roles_from_claims" =>
       /\ fbResp.claims.roles \notin {Absent, Null} =>
             fbResp.result =
                IF fbResp.claims.roles \in {List(<<>>), Str(""), Bool(FALSE), Num(0)}
                THEN List(<<>>)
                ELSE fbResp.claims.roles
       /\ fbResp.claims.roles \in {Absent, Null} =>
             fbResp.result = FlagRoles(fbResp.claims)
       /\ fbResp.result # Null

\* flags that are 1, False or a string are passed over, the True ones kept in order
C17_Witness ==
    /\ fbResp.fn = "get_user_roles_from_claims"
    /\ fbResp.claims.roles = Absent
    /\ fbResp.claims.teacher = Str("yes")
    /\ fbResp.result = List(<<"student", "editor", "viewer">>)

\* ---- the spec's words for the Firebase credentials
\* the JSON variable does not hold JSON, so the file is looked at
NoJsonCredentials(e) == e.json \in {"unset", "empty", "malformed"}

\* credentials are available: a service account in the variable or in the file
CredentialsAvailable(e) == e.json = "cert" \/ e.path = "cert_file"

\* what holds of every call, as the spec has it too: an initialized app is
\* returned as it is, without reading credentials
LaterCallReturns ==
    fbResp.before # {} =>
       /\ fbResp.raised = "no"
       /\ fbResp.app \in fbResp.before
       /\ fbApps = fbResp.before
       /\ fbLoads = fbResp.loads

C12_NeverFailsStartup ==
    /\ app.pc \in {"none", "db_import", "init_engine", "init_session_factory",
                   "test_connection", "smorest_import", "api", "fallback", "returned"}
    /\ app.pc = "returned" =>
          /\ Matching("/") # {} /\ Matching("/healthz") # {}
          /\ \A k \in Matching("/") \cup Matching("/healthz") : app.rules[k].answer = Healthy
    /\ appResp.fn = "get" /\ appResp.path \in {"/", "/healthz"} => appResp.answer = Healthy

\* the DB import and the Api registration failed, the fallback could not
\* register the Health blueprint a second time, and GET / answers Healthy
C12_Witness ==
    /\ app.pc = "returned"
    /\ {"db_import", "api", "Health"} \subseteq app.log
    /\ appResp.fn = "get" /\ appResp.path = "/" /\ appResp.answer = Healthy

\* ---- app/routes/classes.py
\* the last request ran the try block of `handler` and no statement failed
Tried(handler) ==
    /\ clsResp.handler = handler
    /\ clsResp.tried
    /\ ~clsResp.fault
ClassExisted == ClassRows(clsResp.before, clsResp.class_id) # {}
OwnsClass ==
    \/ clsResp.g_role = Some("admin")
    \/ /\ clsResp.g_role = Some("teacher")
       /\ Some(ClassRow(clsResp.before, clsResp.class_id).teacher_email) = clsResp.g_email
TimesInOrder == clsResp.payload.end_time > clsResp.payload.start_time
NoSessionInserted == orm.sessions = clsResp.before.sessions

\* C13: POST /classes/<class_id>/sessions inserts a session row only if the
\* class exists, the caller is an admin or the teacher owning the class, and
\* end_time is after start_time; it answers 404 when the class does not exist,
\* 403 when a teacher does not own it and 400 when end_time <= start_time, in
\* that order, and inserts no session row in these cases.
C13_SessionCreation ==
    Tried("sessions_post") =>
        /\ ~NoSessionInserted => ClassExisted /\ OwnsClass /\ TimesInOrder
        /\ ~ClassExisted => clsResp.status = 404 /\ NoSessionInserted
        /\ ClassExisted /\ ~OwnsClass => clsResp.status = 403 /\ NoSessionInserted
        /\ ClassExisted /\ OwnsClass /\ ~TimesInOrder =>
               clsResp.status = 400 /\ NoSessionInserted

\* a teacher or admin asked for a session of a class that does not exist
C13_Witness ==
    /\ Tried("sessions_post")
    /\ ~ClassExisted
    /\ clsResp.status = 500
    /\ NoSessionInserted

EnrollmentRows(tables, cid, email) ==
    CopiesIn([class_id |-> cid, student_email |-> email], tables.enrollments)

\* C14: POST /classes/<class_id>/enroll by a student answers 404 'Class not
\* found' and inserts nothing when the class does not exist; when it exists it
\* answers 200, and however often the student enrolled there is exactly one
\* enrollment row for that class and student.
C14_Enrollment ==
    Tried("enroll_post") =>
        /\ ~ClassExisted =>
               /\ clsResp.status = 404
               /\ clsResp.message = "Class not found"
               /\ orm = clsResp.before
        /\ ClassExisted =>
               /\ clsResp.status = 200
               /\ EnrollmentRows(orm, clsResp.class_id, clsResp.g_email[1]) = 1

\* a student enrolled in a class that does not exist
C14_Witness ==
    /\ Tried("enroll_post")
    /\ ~ClassExisted
    /\ clsResp.status = 500
    /\ orm = clsResp.before

\* ---- SingletonConnectionPool and get_db_connection
\* thread t's call of instance() is over
LeftInstance(t) ==
    \/ tpc[t] \in {"getconn", "body", "finally"}
    \/ tpc[t] = "idle" /\ tconn[t].fn # "none"

\* C15: under any interleaving of instance() calls at most one pool object is
\* constructed and every call that returns gets that object; when the
\* constructor raises, _instance stays None and the lock is released, and a
\* call that finds _instance None runs the constructor again.
C15_SingletonPool ==
    /\ Len(pools.objects) <= 1
    /\ \A t \in PoolThreads :
        /\ tconn[t].pool_instance # 0 =>
               tconn[t].pool_instance = 1 /\ instance = 1
        /\ LeftInstance(t) /\ tconn[t].ctor = "raised" =>
               /\ tconn[t].pool_instance = 0
               /\ tconn[t].left = [instance |-> 0, lock |-> 0]
        /\ tpc[t] \in {"return", "unwind"} \/ LeftInstance(t) =>
               (tconn[t].ctor # "not_called" <=> tconn[t].found = 0)

\* after a constructor that raised, a later call constructed the pool and two
\* calls returned it
C15_Witness ==
    /\ pools.failed > 0
    /\ Len(pools.objects) = 1
    /\ \A t \in PoolThreads : tconn[t].pool_instance = 1
    /\ \E t \in PoolThreads : tconn[t].ctor = "returned"
    /\ \E t \in PoolThreads : tconn[t].ctor = "not_called"

\* the connections checked out of the pools
CheckedOut == UNION {pools.objects[p].used : p \in DOMAIN pools.objects}
InWithBlock(t) == tpc[t] \in {"body", "finally"}

\* C16: every connection get_db_connection() obtained is put back exactly once
\* when the with block ends, whether its body returned or raised, so that no
\* connection is checked out once every execute_query, execute_many and
\* ensure_schema call has finished.
C16_ConnectionsReturned ==
    /\ \A t \in PoolThreads :
        /\ InWithBlock(t) => tconn[t].puts = 0 /\ tconn[t].conn \in CheckedOut
        /\ tpc[t] = "idle" /\ tconn[t].conn # 0 => tconn[t].puts = 1
    /\ CheckedOut = {tconn[t].conn : t \in {u \in PoolThreads : InWithBlock(u)}}
    /\ (\A t \in PoolThreads : tpc[t] = "idle") => CheckedOut = {}

\* every call has finished, one whose body raised and one whose body returned
C16_Witness ==
    /\ \A t \in PoolThreads : tpc[t] = "idle"
    /\ \E t \in PoolThreads :
        tconn[t].conn # 0 /\ tconn[t].raised = "body" /\ tconn[t].puts = 1
    /\ \E t \in PoolThreads :
        tconn[t].conn # 0 /\ tconn[t].raised = "no" /\ tconn[t].puts = 1
    /\ CheckedOut = {}

\* ---- GET /attendance/stream: closing the response
\* the response stream of client c was closed, and close() has returned
StreamClosed(c) == cpc[c] \in {"closed", "leaked"}

\* C20: once the response stream of a registered client is closed, whether the
\* generator was suspended between chunks or had never been asked for a chunk,
\* the client is unregistered and no publish appends to its queue any more: the
\* client list, and the list a publish iterates, hold no client whose stream
\* has been closed.
C20_ClosedUnregistered ==
    \A c \in Clients :
        StreamClosed(c) =>
            /\ c \notin Listed(clients)
            /\ \A r \in Requests :
                   rpc[r] \in {"pub_iter", "pub_send"} => c \notin Listed(snap[r])

\* a stream closed before its first chunk was requested: the client is still
\* listed and a publish called after the close has appended to its queue
C20_Witness ==
    \E c \in Clients :
        /\ cpc[c] = "leaked"
        /\ c \in Listed(clients)
        /\ yielded[c] = <<>>
        /\ sent[c] # <<>>

\* ---- SseClient.stream(): keep-alive
\* the generator of client c is suspended at the keep-alive of its last iteration
AtKeepAlive(c) ==
    /\ cpc[c] = "s_susp"
    /\ pings[c].last.ping
    /\ Len(items[c]) = pings[c].last.drained

\* C19: an iteration of stream() yields ': keep-alive' exactly when at least
\* 15 seconds have passed since the keep-alive before it, or since the stream
\* started, and yields it before the payloads drained in that iteration; two
\* keep-alives are never less than 15 seconds apart; and stream() waits only
\* when no payload is pending.
C19_KeepAlive ==
    \A c \in Clients :
        LET p == pings[c] IN
        /\ p.last.drained >= 0 =>
               (p.last.ping <=> p.last.at - p.last.prev >= KeepaliveInterval)
        /\ AtKeepAlive(c) => Len(yielded[c]) = p.last.before
        /\ \A i \in 1..Len(p.keepalives) :
               p.keepalives[i] - (IF i = 1 THEN p.start[1] ELSE p.keepalives[i - 1])
                   >= KeepaliveInterval
        /\ cpc[c] = "s_wait" => p.pending = 0
        /\ p.waited => p.pending = 0

\* the second keep-alive of a stream, exactly 15 seconds after the first, is
\* yielded with a payload drained in the same iteration still to come, and an
\* earlier payload was yielded without a keep-alive
C19_Witness ==
    \E c \in Clients :
        /\ AtKeepAlive(c)
        /\ Len(pings[c].keepalives) = 2
        /\ pings[c].last.at - pings[c].last.prev = KeepaliveInterval
        /\ pings[c].last.drained > 0
        /\ yielded[c] # <<>>

\* ---- SseBroker.register / unregister
ListIds(list) == {list[i][1] : i \in 1..Len(list)}
Keeps(e) == e[1] # apiResp.arg

\* C21: register returns 1, 2, 3, ... whatever was unregistered in between, so
\* no two registrations share an id; unregister(client_id) removes the entry
\* of that id and leaves the others in their order; for an id that is not
\* listed it changes nothing.
C21_IdsNeverReused ==
    /\ \A i \in 1..Len(Given) : Given[i] = i
    /\ next_id = Len(Given) + 1
    /\ ListIds(clients) \subseteq 1..Len(Given)
    /\ Cardinality(ListIds(clients)) = Len(clients)
    /\ apiResp.fn = "register" =>
           /\ apiResp.returned = Len(Given)
           /\ apiResp.returned \notin ListIds(apiResp.before)
           /\ clients = Append(apiResp.before, <<apiResp.returned, apiResp.arg>>)
    /\ apiResp.fn = "unregister" =>
           /\ clients = SelectSeq(apiResp.before, Keeps)
           /\ ListIds(clients) = ListIds(apiResp.before) \ {apiResp.arg}
           /\ apiResp.arg \notin ListIds(apiResp.before) => clients = apiResp.before

\* the middle one of three listed clients is unregistered, after an earlier
\* client had been removed and the ids had gone on
C21_Witness ==
    /\ apiResp.fn = "unregister"
    /\ Len(apiResp.before) = 3
    /\ apiResp.arg = apiResp.before[2][1]
    /\ Len(Given) = 4
    /\ clients = <<apiResp.before[1], apiResp.before[3]>>

\* ---- SseBroker.publish: order across clients
\* the publishes whose payload client c received, and where in its sequence
ReceivedFrom(c) == {sentPid[c][i] : i \in 1..Len(sentPid[c])}
Position(c, r) == CHOOSE i \in 1..Len(sentPid[c]) : sentPid[c][i] = r

\* C22: any two clients that both receive the payloads of two publishes
\* receive them in the same order.
C22_SameOrder ==
    \A c, d \in Clients :
        \A a, b \in ReceivedFrom(c) \cap ReceivedFrom(d) :
            Position(c, a) < Position(c, b) <=> Position(d, a) < Position(d, b)

\* two clients have each received the payloads of the same two publishes,
\* that of the second request first
C22_Witness ==
    \E c, d \in Clients :
        /\ c # d
        /\ sentPid[c] = <<2, 1>>
        /\ sentPid[d] = sentPid[c]
        /\ Len(queue[c]) = 2
        /\ Len(queue[d]) = 2

\* ---- progress of the broker
\* A condition lock is held only by its stream while it drains the queue, or
\* by the publish that holds the broker lock and is sending to that client;
\* a thread waiting for the broker lock holds no condition lock.
LockOrder ==
    /\ \A c \in Clients :
          cond[c] # NoThread =>
              \/ cond[c] = Cli(c) /\ cpc[c] = "s_drain"
              \/ \E r \in Requests :
                    /\ cond[c] = Req(r)
                    /\ rpc[r] = "pub_send"
                    /\ lock = Req(r)
                    /\ Head(snap[r])[2] = c
    /\ \A c, d \in Clients : cpc[c] \in {"new", "unreg_call"} => cond[d] # Cli(c)
    /\ \A r \in Requests, d \in Clients : rpc[r] = "pub_call" => cond[d] # Req(r)

\* the response of client c is no longer iterated, or never was
NotIterated(c) ==
    cpc[c] \in {"unreg_call", "unreg_locked", "unreg_write", "closed", "leaked"}

\* C23: no thread waits for the broker lock while holding a condition lock,
\* and under fair scheduling every publish and every unregister that waits
\* for a lock completes, and every payload appended to the queue of a client
\* whose response keeps being iterated is eventually yielded.
C23_Progress ==
    /\ []LockOrder
    /\ \A r \in Publishers : (rpc[r] = "pub_call") ~> (rpc[r] = "done")
    /\ \A c \in Clients : (cpc[c] = "unreg_call") ~> (cpc[c] = "closed")
    /\ \A c \in Clients :
          (sent[c] # <<>>) ~> (yielded[c] = sent[c] \/ NotIterated(c))

\* a publish holding the broker lock waits for the condition lock of a client
\* that is draining its queue, while the other client waits for the broker
\* lock to unregister and has yielded every payload sent to it
C23_Witness ==
    \E c, d \in Clients, r \in Requests :
        /\ rpc[r] = "pub_iter"
        /\ snap[r] # <<>>
        /\ Head(snap[r])[2] = c
        /\ cond[c] = Cli(c)
        /\ cpc[d] = "unreg_call"
        /\ sent[d] # <<>>
        /\ yielded[d] = sent[d]

\* ---- _issue_token / _verify_token
\* the last call verified a token issued under this configuration
Verified == resp.handler = "verify_token"
IssuedAt == resp.token[1].payload.nbf[1]
ExpMinutes == FromEnv(env).exp_minutes
Expired == ~resp.verdict.ok /\ resp.verdict.err = "Token has expired."

HasField(b, k) ==
    /\ b.kind = "dict"
    /\ k \in b.keys
    /\ CASE k = "email" -> b.email # <<>>
         [] k = "password" -> b.password # ""
         [] k = "role" -> b.role # ""

\* the message of the first failing check in the order email, password, role
\* presence, role membership; "" when no check fails
FirstFailing(b) ==
    IF ~HasField(b, "email") THEN "Email is required."
    ELSE IF ~HasField(b, "password") THEN "Password is required."
    ELSE IF ~HasField(b, "role") THEN "Role is required."
    ELSE IF b.role \notin {"student", "teacher", "admin"}
    THEN "Role must be one of: student, teacher, admin."
    ELSE ""

\* the body is missing or is a JSON object
MissingOrObject(b) == b.kind \in {"none", "dict"}

\* C25: a POST /auth/signup whose JSON body is missing or has a missing or
\* empty email, password or role, or a role that is not one of student,
\* teacher, admin, returns 400 with the message of the first failing check in
\* the order email, password, role presence, role membership, and leaves the
\* user store unchanged.
C25_SignupValidation ==
    (resp.handler = "signup" /\ MissingOrObject(resp.body) /\ FirstFailing(resp.body) # "") =>
        /\ resp.status = 400
        /\ resp.message = FirstFailing(resp.body)
        /\ users = resp.store

\* a signup with an empty password and an unknown role, sent when a user is
\* stored, is answered 400 "Password is required."
C25_Witness ==
    /\ resp.handler = "signup"
    /\ resp.body = [FullBody EXCEPT !.password = "", !.role = "root"]
    /\ resp.status = 400
    /\ resp.message = "Password is required."
    /\ users # NoUsers
    /\ users = resp.store

\* ---- upsert_user
\* the call of this caller has returned a dict
UpsertReturned(u) == upc[u] = "idle" /\ ~uloc[u].raised /\ uloc[u].returned # <<>>

\* one users row per email upserted so far, under the id the first upsert
\* gave it, with the name and role of the last upsert for that email
OneRowPerEmail ==
    \A e \in UserEmails :
        LET found == WhereEmail(utab.rows, e) IN
        IF uhist[e] = <<>> THEN found = <<>>
        ELSE /\ Len(found) = 1
             /\ found[1].id = uhist[e][1].id
             /\ \A i \in DOMAIN uhist[e] : uhist[e][i].id = found[1].id
             /\ found[1].name = uhist[e][Len(uhist[e])].name
             /\ found[1].role = uhist[e][Len(uhist[e])].role

\* the dict a call returned carries the name and role passed to that call
ReturnsOwnData ==
    \A u \in Callers :
        UpsertReturned(u) =>
            /\ uloc[u].returned[1].email = uloc[u].email
            /\ uloc[u].returned[1].name = uloc[u].name
            /\ uloc[u].returned[1].role = uloc[u].role

\* C26 as the spec states it: after any sequence of upsert_user calls there
\* is exactly one users row per distinct email, with a stable id and the name
\* and role of the last upsert for that email, and the dict returned by each
\* call carries the name and role passed to that call, also when two calls
\* for the same email run concurrently.
C26_UpsertUser == OneRowPerEmail /\ ReturnsOwnData

\* two calls for the same email with different names ran side by side and
\* the first one returned the name the second one passed
C26_Witness ==
    /\ UpsertReturned(1)
    /\ uloc[1].email = "a" /\ uloc[2].email = "a"
    /\ uloc[1].name = "n1" /\ uloc[2].name = "n2"
    /\ uloc[1].returned[1].name = "n2"
    /\ OneRowPerEmail

====
